---- MODULE Spec2Model ----
(***************************************************************************)
(* agg-ws: the App supervisor (src/src/app.rs), its per-channel Websocket  *)
(* workers (src/src/websocket.rs), the per-exchange message handlers       *)
(* (gdax.rs, kraken.rs, hyperliquid.rs), the Book and Tape stores          *)
(* (book.rs, trades.rs) and the client facades (client.rs).                *)
(*                                                                         *)
(* Decimal prices and sizes are modelled by their numeric value (the       *)
(* BTreeMap<Decimal, Decimal> keys compare numerically); Utc::now() is a   *)
(* logical clock that advances with every reading.                         *)
(***************************************************************************)
EXTENDS Integers, Sequences, FiniteSets, TLC

VARIABLES
    chans,      \* the channels the callers of this run use
    app,        \* the supervisor thread: "running" (at the select! of its
                \* loop), "handling" (inside a handler) or "panicked"
    tapes,      \* State.tapes : Channel -> VecDeque<Trade>
    books,      \* State.books : Channel -> Book
    sockets,    \* App.sockets : Channel -> Websocket
    workers,    \* the Websocket worker threads, by channel
    reqQueue,   \* the mpsc queue of ClientReq (client -> app)
    wsQueue,    \* the mpsc queue of (Channel, Result<Message>) (workers -> app)
    last,       \* what the app's last step produced: the response to a
                \* request, or the Result of handling a frame
    inserted,   \* history: the trades handed to insert_trade, by channel
    started,    \* history: the channels a Start request was handled for
    subscribed, \* history: Start succeeded and no Stop was handled since
    stream,     \* the mpsc queue of Result<ClientRespMsg> (app -> AsyncClient)
    nFrm,       \* frames read by the workers so far
    now,        \* Utc::now(), a logical clock: the readings so far
    facade      \* the client's sender of the request queue: "held", or
                \* "dropped" with the client

vars == <<chans, app, tapes, books, sockets, workers, reqQueue, wsQueue, last,
          inserted, started, subscribed, stream, nFrm, now, facade>>

----------------------------------------------------------------------------
(* Bounds of the model *)

MaxQueue == 1          \* messages waiting in either queue of the app
MaxFrames == 1         \* frames the connections deliver in a run of Spec
MaxBookFrames == 2     \* ... in a run of SpecFrames
MaxTapeFrames == 102   \* ... in a run of SpecTape
MaxLevels == 2         \* price levels (or trades) in one message
MaxSnapshotLevels == 1 \* price levels on one side of a snapshot
MaxRequests == 3       \* requests of AsyncClient in a run of SpecAsync
MaxOrderFrames == 4    \* frames the connections deliver in a run of SpecOrder
MaxOrderQueue == 3     \* frames waiting in the workers' queue in SpecOrder
MaxConvertFrames == 3  \* frames the connection delivers in a run of SpecConvert
MaxStepFrames == 2     \* frames the connection delivers in a run of SpecSteps
MaxLastFrames == 2     \* frames the connection delivers in a run of SpecLast
MaxWorkerFrames == 2   \* frames the connection delivers in a run of SpecWorker
MaxSignals == 2        \* values sent on a killshot channel in SpecWorker
MaxClock == 110        \* readings of the clock that are told apart

(* VecDeque::with_capacity(100) *)
TapeCapacity == 100

----------------------------------------------------------------------------
(* client.rs: Exchange, ChannelType, Channel *)

Exchange == {"Gdax", "Kraken", "Hyperliquid"}

ChannelType == {"Book", "Tape"}

Markets == {"BTC-USD", "ETH-USD"}

Channel == [exchange : Exchange, channel : ChannelType, market : Markets]

(* error.rs: Error.  "Tungstenite" is a transport error, "Serde" a decode   *)
(* error.                                                                   *)
Error == {"UnexpectedShutdown", "SocketDoesNotExist", "ChannelResponseMismatch",
          "ChannelDoesNotExist", "ChannelAlreadySubscribed", "Oneshot",
          "Tungstenite", "Serde"}

Ok(v) == [ok |-> TRUE, val |-> v, err |-> "None"]

Err(e) == [ok |-> FALSE, val |-> <<>>, err |-> e]

----------------------------------------------------------------------------
(* HashMap / BTreeMap operations used by the code *)

EmptyMap == [k \in {} |-> 0]

contains_key(m, k) == k \in DOMAIN m

MapInsert(m, k, v) == [x \in DOMAIN m \cup {k} |-> IF x = k THEN v ELSE m[x]]

MapRemove(m, k) == [x \in DOMAIN m \ {k} |-> m[x]]

(* m.get(k): Some(v) or None *)
MapGet(m, k) == IF k \in DOMAIN m THEN Ok(m[k]) ELSE Err("None")

(* map.extend(levels): inserts (price, size) pairs in order, so a later pair *)
(* of the same price replaces an earlier one                                 *)
RECURSIVE Extend(_, _)
Extend(m, levels) ==
    IF levels = <<>> THEN m
    ELSE Extend(MapInsert(m, Head(levels)[1], Head(levels)[2]), Tail(levels))

(* book.rs: Book::new *)
BookNew == [bids |-> EmptyMap, asks |-> EmptyMap]

----------------------------------------------------------------------------
(* Text and numbers.  A text (String) is a sequence of one-character        *)
(* strings.  A natural number of any size is the sequence of its decimal    *)
(* digits, most significant first and without leading zeros, so that i64    *)
(* and Decimal values above 2^31 can be told apart.                         *)

DigitChars == <<"0", "1", "2", "3", "4", "5", "6", "7", "8", "9">>

DigitOf(ch) == (CHOOSE i \in 1..10 : DigitChars[i] = ch) - 1

CharOf(d) == DigitChars[d + 1]

Zeros(k) == [i \in 1..k |-> 0]

RECURSIVE Normal(_)
Normal(n) ==
    IF n = <<>> THEN <<0>>
    ELSE IF Len(n) > 1 /\ Head(n) = 0 THEN Normal(Tail(n)) ELSE n

(* a <= b, for numbers without leading zeros *)
NatLeq(a, b) ==
    \/ Len(a) < Len(b)
    \/ /\ Len(a) = Len(b)
       /\ \/ a = b
          \/ \E i \in 1..Len(a) : a[i] < b[i] /\ \A j \in 1..(i - 1) : a[j] = b[j]

(* n div 10^k and n mod 10^k, the latter as k digits *)
DivPow10(n, k) == IF Len(n) <= k THEN <<0>> ELSE SubSeq(n, 1, Len(n) - k)

ModPow10(n, k) ==
    IF Len(n) <= k THEN Zeros(k - Len(n)) \o n ELSE SubSeq(n, Len(n) - k + 1, Len(n))

(* the digits of a small number, and the small number of some digits *)
RECURSIVE Digits(_)
Digits(n) == IF n < 10 THEN <<n>> ELSE Append(Digits(n \div 10), n % 10)

RECURSIVE Value(_)
Value(n) == IF n = <<>> THEN 0 ELSE Value(SubSeq(n, 1, Len(n) - 1)) * 10 + n[Len(n)]

(* i64::MAX *)
I64Max == <<9, 2, 2, 3, 3, 7, 2, 0, 3, 6, 8, 5, 4, 7, 7, 5, 8, 0, 7>>

(* rust_decimal: Decimal, a mantissa and the number of its digits that are  *)
(* behind the decimal point.  Only non-negative values are modelled.        *)
Decimal(mantissa, scale) == [mantissa |-> mantissa, scale |-> scale]

(* Decimal::from_str, as serde applies it to the text of a JSON string *)
DecimalFromStr(text) ==
    LET dots == {i \in 1..Len(text) : text[i] = "."}
        p == IF dots = {} THEN Len(text) + 1 ELSE CHOOSE i \in dots : TRUE
        int == [i \in 1..(p - 1) |-> DigitOf(text[i])]
        frac == IF dots = {} THEN <<>>
                ELSE [i \in 1..(Len(text) - p) |-> DigitOf(text[p + i])]
    IN Decimal(Normal(int \o frac), Len(frac))

(* impl fmt::Display for Decimal: the integer part, and "." and scale       *)
(* digits when the scale is not zero                                        *)
DecimalFmt(d) ==
    LET int == DivPow10(d.mantissa, d.scale)
        frac == ModPow10(d.mantissa, d.scale)
    IN [i \in 1..Len(int) |-> CharOf(int[i])]
       \o (IF d.scale = 0 THEN <<>>
           ELSE <<".">> \o [i \in 1..Len(frac) |-> CharOf(frac[i])])

(* Decimal::normalize: the zeros at the end of the fraction are dropped *)
RECURSIVE DecimalNormalize(_)
DecimalNormalize(d) ==
    IF d.scale > 0 /\ d.mantissa[Len(d.mantissa)] = 0
    THEN DecimalNormalize(Decimal(DivPow10(d.mantissa, 1), d.scale - 1))
    ELSE d

(* to_string of the normalized Decimal *)
DecimalToStringNormalized(d) == DecimalFmt(DecimalNormalize(d))

(* Decimal::to_string *)
DecimalToString(d) == DecimalFmt(d)

(* d * dec!(1000000000) *)
DecimalMulBillion(d) ==
    Decimal(IF d.mantissa = <<0>> THEN <<0>> ELSE d.mantissa \o Zeros(9), d.scale)

(* Decimal::to_i64: the integer part, None when it is above i64::MAX *)
DecimalToI64(d) ==
    LET int == DivPow10(d.mantissa, d.scale)
    IN IF NatLeq(int, I64Max) THEN Ok(int) ELSE Err("None")

(* chrono: DateTime<Utc>, the seconds since the epoch and the nanoseconds   *)
(* of the second, as nine digits                                            *)
DateTime(secs, nanos) == [secs |-> secs, nanos |-> nanos]

(* the last second of DateTime::<Utc>::MAX_UTC *)
MaxDateTimeSecs == <<8, 2, 1, 0, 2, 6, 6, 8, 7, 6, 7, 9, 9>>

(* Utc.timestamp_nanos(n) *)
TimestampNanos(n) == DateTime(DivPow10(n, 9), ModPow10(n, 9))

(* Utc.timestamp_millis_opt(ms): LocalResult::None when out of range *)
TimestampMillisOpt(ms) ==
    IF NatLeq(DivPow10(ms, 3), MaxDateTimeSecs)
    THEN Ok(DateTime(DivPow10(ms, 3), ModPow10(ms, 3) \o Zeros(6)))
    ELSE Err("None")

(* An ISO-8601 time of gdax: second is the epoch second its date and time   *)
(* of day denote, fraction the digits behind the point of the seconds.      *)
IsoTime(second, fraction) == [second |-> second, fraction |-> fraction]

(* the Deserialize of DateTime<Utc>: the fraction is read as nanoseconds,   *)
(* up to nine digits of it                                                  *)
DateTimeFromStr(iso) ==
    LET frac == [i \in 1..Len(iso.fraction) |-> DigitOf(iso.fraction[i])]
    IN DateTime(iso.second,
                IF Len(frac) >= 9 THEN SubSeq(frac, 1, 9)
                ELSE frac \o Zeros(9 - Len(frac)))

----------------------------------------------------------------------------
(* Frames.  A frame is what read.next() yields on a worker's connection:    *)
(* a transport error, a non-text Message, or a text Message whose body has  *)
(* one of the shapes the exchanges send.                                    *)

Prices == {10, 11}

Sizes == {0, 1, 2}

Side == {"buy", "sell"}

Frame(frame, shape, trades, bids, asks, changes) ==
    [frame |-> frame, shape |-> shape, trades |-> trades,
     bids |-> bids, asks |-> asks, changes |-> changes]

ErrFrame == Frame("Err", "none", <<>>, <<>>, <<>>, <<>>)

NonTextFrame == Frame("NonText", "none", <<>>, <<>>, <<>>, <<>>)

TextFrame(shape) == Frame("Text", shape, <<>>, <<>>, <<>>, <<>>)

TradeFrame(trades) == Frame("Text", "trade", trades, <<>>, <<>>, <<>>)

SnapshotFrame(bids, asks) == Frame("Text", "snapshot", <<>>, bids, asks, <<>>)

(* gdax l2update: changes is a list of <<side, price, size>> *)
L2updateFrame(changes) == Frame("Text", "l2update", <<>>, <<>>, <<>>, changes)

(* kraken book updates: "ask" carries asks, "bid" bids, "both" both *)
KrakenUpdateFrame(shape, bids, asks) == Frame("Text", shape, <<>>, bids, asks, <<>>)

(* serde_json::from_str::<Response>(&text) of each exchange: the variant of *)
(* Response the text decodes into, or "Serde" when it decodes into none     *)
DecodeGdax(shape) ==
    CASE shape = "info" -> "Info"          \* Subscriptions, Heartbeat
      [] shape = "trade" -> "Ticker"
      [] shape = "snapshot" -> "Snapshot"
      [] shape = "l2update" -> "L2update"
      [] OTHER -> "Serde"

DecodeKraken(shape) ==
    CASE shape = "info" -> "TaggedResp"    \* Heartbeat, SystemStatus, SubscriptionStatus
      [] shape = "trade" -> "Trade"
      [] shape = "snapshot" -> "Snapshot"
      [] shape = "ask" -> "L2updateAsk"
      [] shape = "bid" -> "L2updateBid"
      [] shape = "both" -> "L2updateBoth"
      [] OTHER -> "Serde"

DecodeHyperliquid(shape) ==
    CASE shape = "info" -> "SubscriptionResponse"
      [] shape = "trade" -> "Trades"
      [] shape = "snapshot" -> "L2Book"
      [] OTHER -> "Serde"

----------------------------------------------------------------------------
(* trades.rs *)

(* A native trade event: the price and size text, and the time in the       *)
(* exchange's encoding: an ISO-8601 text on gdax, the text of a decimal     *)
(* number of seconds on kraken, a number of milliseconds on hyperliquid.    *)
NativeTrade(price, size, time) == [price |-> price, size |-> size, time |-> time]

(* gdax.rs: Ticker, kraken.rs: WsTrade, hyperliquid.rs: Trade, as serde     *)
(* decodes them from the event                                              *)
Ticker(native) ==
    [price |-> native.price, size |-> native.size,
     time |-> DateTimeFromStr(native.time)]

WsTrade(native) ==
    [price |-> DecimalFromStr(native.price), volume |-> DecimalFromStr(native.size),
     time |-> DecimalFromStr(native.time)]

HLTrade(native) == [px |-> native.price, sz |-> native.size, time |-> native.time]

Trade(price, size, dt, exchange) ==
    [price |-> price, size |-> size, dt |-> dt, exchange |-> exchange]

(* .unwrap() of a None: the thread panics *)
Panic == Err("Panic")

(* impl TryFrom<Ticker>, TryFrom<WsTrade>, TryFrom<HLTrade> for Trade *)
TradeFromTicker(t) == Ok(Trade(t.price, t.size, t.time, "Gdax"))

TradeFromWsTrade(t) ==
    LET nanos == DecimalToI64(DecimalMulBillion(t.time))
    IN IF nanos.ok
       THEN Ok(Trade(DecimalToString(t.price), DecimalToString(t.volume),
                     TimestampNanos(nanos.val), "Kraken"))
       ELSE Panic

TradeFromHLTrade(t) ==
    LET dt == TimestampMillisOpt(t.time)
    IN IF dt.ok THEN Ok(Trade(t.px, t.sz, dt.val, "Hyperliquid")) ELSE Panic

(* insert_trade without the eviction of the oldest trade *)
insert_trade_unbounded(tps, channel, trade) ==
    IF channel \in DOMAIN tps
    THEN [tps EXCEPT ![channel] = Append(@, trade)]
    ELSE tps

(* App::insert_trade: tapes.entry(channel).and_modify(..) *)
insert_trade(tps, channel, trade) ==
    IF channel \in DOMAIN tps
    THEN [tps EXCEPT ![channel] =
            IF Len(@) = TapeCapacity
            THEN Append(Tail(@), trade)      \* pop_front, push_back
            ELSE Append(@, trade)]
    ELSE tps

RECURSIVE insert_trades(_, _, _)
insert_trades(tps, channel, trades) ==
    IF trades = <<>> THEN tps
    ELSE insert_trades(insert_trade(tps, channel, Head(trades)), channel, Tail(trades))

(* the conversion of each trade of a kraken or hyperliquid message, in order *)
TradesFromWsTrades(trades) ==
    [i \in 1..Len(trades) |-> TradeFromWsTrade(WsTrade(trades[i]))]

TradesFromHLTrades(trades) ==
    [i \in 1..Len(trades) |-> TradeFromHLTrade(HLTrade(trades[i]))]

(* `let trade = t.try_into()?; self.insert_trade(..)` for each trade of the *)
(* message: the trades converted before the first conversion that panics,   *)
(* and whether none panicked                                                *)
RECURSIVE Unwrapped(_)
Unwrapped(results) ==
    IF results = <<>> \/ ~Head(results).ok THEN <<>>
    ELSE <<Head(results).val>> \o Unwrapped(Tail(results))

Converts(results) ==
    IF \A i \in 1..Len(results) : results[i].ok THEN "Ok" ELSE "Panic"

----------------------------------------------------------------------------
(* book.rs *)

(* UpdateLevel storing the level whatever its size *)
UpdateLevelStoreZero(bks, channel, side, price, size) ==
    IF channel \in DOMAIN bks
    THEN [bks EXCEPT ![channel][side] = MapInsert(@, price, size)]
    ELSE bks

(* books.entry(channel).and_modify(|bt| bt.<side>.remove / insert) for one  *)
(* level                                                                    *)
UpdateLevel(bks, channel, side, price, size) ==
    IF channel \in DOMAIN bks
    THEN IF size = 0
         THEN [bks EXCEPT ![channel][side] = MapRemove(@, price)]
         ELSE [bks EXCEPT ![channel][side] = MapInsert(@, price, size)]
    ELSE bks

(* insert_gdax_snapshot extending the Book the channel has *)
insert_gdax_snapshot_merge(bks, channel, snapshot) ==
    LET book == IF channel \in DOMAIN bks THEN bks[channel] ELSE BookNew
    IN MapInsert(bks, channel,
                 [bids |-> Extend(book.bids, snapshot.bids),
                  asks |-> Extend(book.asks, snapshot.asks)])

insert_gdax_snapshot(bks, channel, snapshot) ==
    MapInsert(bks, channel,
              [bids |-> Extend(EmptyMap, snapshot.bids),
               asks |-> Extend(EmptyMap, snapshot.asks)])

RECURSIVE insert_gdax_l2update(_, _, _)
insert_gdax_l2update(bks, channel, changes) ==
    IF changes = <<>> THEN bks
    ELSE LET update == Head(changes)
             side == IF update[1] = "buy" THEN "bids" ELSE "asks"
         IN insert_gdax_l2update(
                UpdateLevel(bks, channel, side, update[2], update[3]),
                channel, Tail(changes))

insert_kraken_snapshot(bks, channel, snapshot) ==
    MapInsert(bks, channel,
              [bids |-> Extend(EmptyMap, snapshot.bids),
               asks |-> Extend(EmptyMap, snapshot.asks)])

RECURSIVE insert_kraken_update_ask(_, _, _)
insert_kraken_update_ask(bks, channel, update) ==
    IF update = <<>> THEN bks
    ELSE insert_kraken_update_ask(
             UpdateLevel(bks, channel, "asks", Head(update)[1], Head(update)[2]),
             channel, Tail(update))

RECURSIVE insert_kraken_update_bid(_, _, _)
insert_kraken_update_bid(bks, channel, update) ==
    IF update = <<>> THEN bks
    ELSE insert_kraken_update_bid(
             UpdateLevel(bks, channel, "bids", Head(update)[1], Head(update)[2]),
             channel, Tail(update))

insert_kraken_update_both(bks, channel, bid, ask) ==
    insert_kraken_update_ask(insert_kraken_update_bid(bks, channel, bid), channel, ask)

insert_hyperliquid_snapshot(bks, channel, snapshot) ==
    MapInsert(bks, channel,
              [bids |-> Extend(EmptyMap, snapshot.bids),
               asks |-> Extend(EmptyMap, snapshot.asks)])

----------------------------------------------------------------------------
(* app.rs: update_last; websocket.rs: Websocket *)

(* The Websocket record the app keeps: the write half and the killshot      *)
(* sender are handles on the worker of the same channel (workers[channel]). *)
Websocket(t) == [last_message |-> t]

(* Utc::now(): the reading after reading t of the logical clock; the        *)
(* readings from MaxClock on are one reading                                *)
UtcNow(t) == IF t < MaxClock THEN t + 1 ELSE t

(* update_last that stamps the record of every channel of the exchange *)
update_last_exchange(socks, channel, t) ==
    [c \in DOMAIN socks |->
        IF c.exchange = channel.exchange /\ channel \in DOMAIN socks
        THEN [socks[c] EXCEPT !.last_message = t]
        ELSE socks[c]]

(* sockets.entry(channel).and_modify(|ws| ws.last_message = Utc::now()) *)
update_last(socks, channel, t) ==
    IF channel \in DOMAIN socks
    THEN [socks EXCEPT ![channel].last_message = t]
    ELSE socks

Outcome(result, tps, bks, socks) ==
    [result |-> result, tapes |-> tps, books |-> bks, sockets |-> socks]

----------------------------------------------------------------------------
(* gdax.rs, kraken.rs, hyperliquid.rs: the handlers of a decoded Response.  *)
(* Each yields the Result ("Ok" or the Error) and the maps it leaves.       *)

handle_ws_response_gdax(tps, bks, socks, channel, response, m) ==
    CASE response = "Ticker" ->
            IF channel.channel = "Tape"
            THEN Outcome("Ok",
                         insert_trade(tps, channel,
                                      TradeFromTicker(Ticker(m.trades[1])).val),
                         bks, socks)
            ELSE Outcome("ChannelResponseMismatch", tps, bks, socks)
      [] response = "Snapshot" ->
            Outcome("Ok", tps, insert_gdax_snapshot(bks, channel, m), socks)
      [] response = "L2update" ->
            Outcome("Ok", tps, insert_gdax_l2update(bks, channel, m.changes), socks)
      [] OTHER -> Outcome("Ok", tps, bks, socks)     \* Heartbeat, Subscriptions

handle_ws_response_kraken(tps, bks, socks, channel, response, m) ==
    CASE response = "Trade" ->
            IF channel.channel = "Tape"
            THEN Outcome(Converts(TradesFromWsTrades(m.trades)),
                         insert_trades(tps, channel,
                                       Unwrapped(TradesFromWsTrades(m.trades))),
                         bks, socks)
            ELSE Outcome("ChannelResponseMismatch", tps, bks, socks)
      [] response = "Snapshot" ->
            Outcome("Ok", tps, insert_kraken_snapshot(bks, channel, m), socks)
      [] response = "L2updateAsk" ->
            Outcome("Ok", tps, insert_kraken_update_ask(bks, channel, m.asks), socks)
      [] response = "L2updateBid" ->
            Outcome("Ok", tps, insert_kraken_update_bid(bks, channel, m.bids), socks)
      [] response = "L2updateBoth" ->
            Outcome("Ok", tps, insert_kraken_update_both(bks, channel, m.bids, m.asks),
                    socks)
      [] OTHER -> Outcome("Ok", tps, bks, socks)     \* TaggedResp

(* handle_ws_response_hyperliquid without the test of the channel's kind *)
handle_ws_response_hyperliquid_unchecked(tps, bks, socks, channel, response, m) ==
    CASE response = "Trades" ->
            Outcome(Converts(TradesFromHLTrades(m.trades)),
                    insert_trades(tps, channel,
                                  Unwrapped(TradesFromHLTrades(m.trades))),
                    bks, socks)
      [] response = "L2Book" ->
            Outcome("Ok", tps, insert_hyperliquid_snapshot(bks, channel, m), socks)
      [] OTHER -> Outcome("Ok", tps, bks, socks)

handle_ws_response_hyperliquid(tps, bks, socks, channel, response, m) ==
    CASE response = "Trades" ->
            IF channel.channel = "Tape"
            THEN Outcome(Converts(TradesFromHLTrades(m.trades)),
                         insert_trades(tps, channel,
                                       Unwrapped(TradesFromHLTrades(m.trades))),
                         bks, socks)
            ELSE Outcome("ChannelResponseMismatch", tps, bks, socks)
      [] response = "L2Book" ->
            Outcome("Ok", tps, insert_hyperliquid_snapshot(bks, channel, m), socks)
      [] OTHER -> Outcome("Ok", tps, bks, socks)     \* SubscriptionResponse

(* handle_ws_msg_<exchange>: Err(e) is returned as it is; Ok(m) updates the *)
(* socket's last_message and then parses a text message.                    *)
handle_ws_msg_gdax(tps, bks, socks, channel, m, t) ==
    IF m.frame = "Err" THEN Outcome("Tungstenite", tps, bks, socks)
    ELSE LET socks1 == update_last(socks, channel, t)
         IN IF m.frame = "Text"
            THEN LET response == DecodeGdax(m.shape)
                 IN IF response = "Serde"
                    THEN Outcome("Serde", tps, bks, socks1)
                    ELSE handle_ws_response_gdax(tps, bks, socks1, channel, response, m)
            ELSE Outcome("Ok", tps, bks, socks1)

(* handle_ws_msg_kraken updating last_message once the message is handled *)
handle_ws_msg_kraken_late(tps, bks, socks, channel, m, t) ==
    IF m.frame = "Err" THEN Outcome("Tungstenite", tps, bks, socks)
    ELSE IF m.frame = "Text"
         THEN LET response == DecodeKraken(m.shape)
              IN IF response = "Serde"
                 THEN Outcome("Serde", tps, bks, socks)
                 ELSE LET out == handle_ws_response_kraken(tps, bks, socks, channel,
                                                           response, m)
                      IN IF out.result = "Ok"
                         THEN Outcome("Ok", out.tapes, out.books,
                                      update_last(socks, channel, t))
                         ELSE out
         ELSE Outcome("Ok", tps, bks, update_last(socks, channel, t))

handle_ws_msg_kraken(tps, bks, socks, channel, m, t) ==
    IF m.frame = "Err" THEN Outcome("Tungstenite", tps, bks, socks)
    ELSE LET socks1 == update_last(socks, channel, t)
         IN IF m.frame = "Text"
            THEN LET response == DecodeKraken(m.shape)
                 IN IF response = "Serde"
                    THEN Outcome("Serde", tps, bks, socks1)
                    ELSE handle_ws_response_kraken(tps, bks, socks1, channel, response, m)
            ELSE Outcome("Ok", tps, bks, socks1)

(* handle_ws_msg_hyperliquid that hands every text to the decoder *)
handle_ws_msg_hyperliquid_decode_all(tps, bks, socks, channel, m, t) ==
    IF m.frame = "Err" THEN Outcome("Tungstenite", tps, bks, socks)
    ELSE LET socks1 == update_last(socks, channel, t)
         IN IF m.frame = "Text"
            THEN LET response == DecodeHyperliquid(m.shape)
                 IN IF response = "Serde"
                    THEN Outcome("Serde", tps, bks, socks1)
                    ELSE handle_ws_response_hyperliquid(tps, bks, socks1, channel,
                                                        response, m)
            ELSE Outcome("Ok", tps, bks, socks1)

handle_ws_msg_hyperliquid(tps, bks, socks, channel, m, t) ==
    IF m.frame = "Err" THEN Outcome("Tungstenite", tps, bks, socks)
    ELSE LET socks1 == update_last(socks, channel, t)
         IN IF m.frame = "Text"
            THEN IF m.shape = "established"
                 THEN Outcome("Ok", tps, bks, socks1)
                 ELSE LET response == DecodeHyperliquid(m.shape)
                      IN IF response = "Serde"
                         THEN Outcome("Serde", tps, bks, socks1)
                         ELSE handle_ws_response_hyperliquid(tps, bks, socks1, channel,
                                                             response, m)
            ELSE Outcome("Ok", tps, bks, socks1)

(* App::handle_ws_msg dispatches on channel.exchange *)
handle_ws_msg_exchange(tps, bks, socks, channel, m, t) ==
    CASE channel.exchange = "Gdax" -> handle_ws_msg_gdax(tps, bks, socks, channel, m, t)
      [] channel.exchange = "Kraken" -> handle_ws_msg_kraken(tps, bks, socks, channel, m, t)
      [] channel.exchange = "Hyperliquid" ->
            handle_ws_msg_hyperliquid(tps, bks, socks, channel, m, t)

(* .expect("Expected ... msg handled."): an Err panics the supervisor thread *)
Expect(result) == IF result = "Ok" THEN "running" ELSE "panicked"

----------------------------------------------------------------------------
(* client.rs: Channel::subscribe_message, Channel::unsubscribe_message *)

Payload(exchange, verb, name, market) ==
    [exchange |-> exchange, verb |-> verb, name |-> name, market |-> market]

subscribe_message_book(c) ==
    CASE c.exchange = "Gdax" -> Payload("Gdax", "subscribe", "level2_batch", c.market)
      [] c.exchange = "Kraken" -> Payload("Kraken", "subscribe", "book", c.market)
      [] c.exchange = "Hyperliquid" ->
            Payload("Hyperliquid", "subscribe", "l2Book", c.market)

subscribe_message_tape(c) ==
    CASE c.exchange = "Gdax" -> Payload("Gdax", "subscribe", "ticker", c.market)
      [] c.exchange = "Kraken" -> Payload("Kraken", "subscribe", "trade", c.market)
      [] c.exchange = "Hyperliquid" ->
            Payload("Hyperliquid", "subscribe", "trades", c.market)

subscribe_message(c) ==
    IF c.channel = "Tape" THEN subscribe_message_tape(c) ELSE subscribe_message_book(c)

unsubscribe_message_book(c) ==
    CASE c.exchange = "Gdax" -> Payload("Gdax", "unsubscribe", "level2_batch", c.market)
      [] c.exchange = "Kraken" -> Payload("Kraken", "subscribe", "book", c.market)
      [] c.exchange = "Hyperliquid" ->
            Payload("Hyperliquid", "subscribe", "l2Book", c.market)

unsubscribe_message_tape(c) ==
    CASE c.exchange = "Gdax" -> Payload("Gdax", "unsubscribe", "ticker", c.market)
      [] c.exchange = "Kraken" -> Payload("Kraken", "unsubscribe", "trade", c.market)
      [] c.exchange = "Hyperliquid" ->
            Payload("Hyperliquid", "unsubscribe", "trades", c.market)

unsubscribe_message(c) ==
    IF c.channel = "Tape" THEN unsubscribe_message_tape(c)
    ELSE unsubscribe_message_book(c)

----------------------------------------------------------------------------
(* The state after BlockingClient::new / AsyncClient::new *)

Chan(exchange, type, market) ==
    [exchange |-> exchange, channel |-> type, market |-> market]

(* The channels the callers of one run of Spec use: two channels that       *)
(* differ in kind only, in market only, or in exchange only.                *)
ChannelSets ==
    {{Chan("Gdax", "Book", "BTC-USD"), Chan("Gdax", "Tape", "BTC-USD")},
     {Chan("Kraken", "Tape", "BTC-USD"), Chan("Kraken", "Tape", "ETH-USD")},
     {Chan("Hyperliquid", "Book", "BTC-USD"), Chan("Kraken", "Book", "BTC-USD")}}

Nothing == [kind |-> "None"]

InitCommon ==
    /\ app = "running"
    /\ tapes = EmptyMap
    /\ books = EmptyMap
    /\ sockets = EmptyMap
    /\ workers = EmptyMap
    /\ reqQueue = <<>>
    /\ wsQueue = <<>>
    /\ last = Nothing
    /\ inserted = EmptyMap
    /\ started = {}
    /\ subscribed = {}
    /\ stream = <<>>
    /\ facade = "held"
    /\ nFrm = 0
    /\ now = 0

Init ==
    /\ chans \in ChannelSets
    /\ InitCommon

----------------------------------------------------------------------------
(* client.rs: the calls of BlockingClient and AsyncClient.  Each builds a   *)
(* ClientReq and sends it on the request queue.                             *)

Ops == {"Start", "Stop", "Tape", "Book", "Last"}

(* ClientReq::<op> { channel, resp }: resp is Some(oneshot sender) in a     *)
(* request of BlockingClient and None in a request of AsyncClient           *)
ClientReq(op, c, resp) == [op |-> op, channel |-> c, resp |-> resp]

(* BlockingClient::request: the Result the caller gets.  sent tells whether *)
(* spawn.send(req) succeeded, recv is what resp_rx.blocking_recv() yields:  *)
(* Ok(response), or Err(RecvError) when the sender was dropped.             *)
BlockingRequest(sent, recv) ==
    IF sent
    THEN IF recv.ok THEN recv.val ELSE Err("Oneshot")
    ELSE Err("UnexpectedShutdown")

(* AsyncClient::request *)
AsyncRequest(sent) == IF sent THEN Ok("unit") ELSE Err("UnexpectedShutdown")

(* a call of BlockingClient while the supervisor thread lives: the request *)
(* waits in the queue until the supervisor's loop takes it                 *)
ClientCall(op, c) ==
    /\ app # "panicked"
    /\ facade = "held"
    /\ Len(reqQueue) < MaxQueue
    /\ reqQueue' = Append(reqQueue, ClientReq(op, c, "Some"))
    /\ UNCHANGED <<chans, app, tapes, books, sockets, workers, wsQueue, last,
                   inserted, started, subscribed, stream, nFrm, now, facade>>

(* a call of AsyncClient while the supervisor receives requests; limit      *)
(* bounds the requests of the run                                           *)
AsyncCall(op, c, limit) ==
    /\ app # "panicked"
    /\ facade = "held"
    /\ Len(reqQueue) < MaxQueue
    /\ Len(stream) + Len(reqQueue) < limit
    /\ reqQueue' = Append(reqQueue, ClientReq(op, c, "None"))
    /\ UNCHANGED <<chans, app, tapes, books, sockets, workers, wsQueue, last,
                   inserted, started, subscribed, stream, nFrm, now, facade>>

(* a call of BlockingClient after the supervisor thread has ended: the      *)
(* receiver of the request queue is dropped and spawn.send fails            *)
ClientCallClosed(op, c) ==
    /\ app = "panicked"
    /\ last' = [kind |-> "call", op |-> op, channel |-> c,
                returned |-> BlockingRequest(FALSE, Err("RecvError"))]
    /\ UNCHANGED <<chans, app, tapes, books, sockets, workers, reqQueue, wsQueue,
                   inserted, started, subscribed, stream, nFrm, now, facade>>

(* a call of AsyncClient after the supervisor thread has ended: the         *)
(* receiver of the request queue is dropped and spawn.send fails            *)
AsyncCallClosed(op, c) ==
    /\ app = "panicked"
    /\ last' = [kind |-> "call", op |-> op, channel |-> c,
                returned |-> AsyncRequest(FALSE)]
    /\ UNCHANGED <<chans, app, tapes, books, sockets, workers, reqQueue, wsQueue,
                   inserted, started, subscribed, stream, nFrm, now, facade>>

----------------------------------------------------------------------------
(* app.rs: App::handle_client_req *)

HasEntry(c) == c \in DOMAIN tapes \/ c \in DOMAIN books

(* What held of the request's channel when the app took the request *)
Pre(c) ==
    [started |-> c \in started, subscribed |-> c \in subscribed,
     socket |-> c \in DOMAIN sockets, entry |-> HasEntry(c),
     \* a Start of c succeeded and a Stop of c removed its socket record since
     stopped |-> c \in DOMAIN workers /\ c \notin DOMAIN sockets]

(* Resp of an AsyncClient whose call waits for the outcome of its request   *)
(* and returns it                                                           *)
RespAwaited(req, response) ==
    [kind |-> "response", op |-> req.op, channel |-> req.channel,
     response |-> response, pre |-> Pre(req.channel),
     returned |-> IF req.resp = "Some" THEN BlockingRequest(TRUE, Ok(response))
                  ELSE response]

(* What the supervisor's step did with a request: the response it built,  *)
(* and what the caller's call returned                                     *)
Resp(req, response) ==
    [kind |-> "response", op |-> req.op, channel |-> req.channel,
     response |-> response, pre |-> Pre(req.channel),
     returned |-> IF req.resp = "Some" THEN BlockingRequest(TRUE, Ok(response))
                  ELSE AsyncRequest(TRUE)]

(* client.rs: ClientRespMsg { channel, resp } and ClientResp *)
ClientResp(op, val) ==
    CASE op = "Start" -> [kind |-> "Subscribed"]
      [] op = "Stop" -> [kind |-> "Unsubscribed"]
      [] op = "Tape" -> [kind |-> "Tape", val |-> val]
      [] op = "Book" -> [kind |-> "Book", val |-> val]
      [] op = "Last" -> [kind |-> "Last", val |-> val]

ClientRespMsg(channel, resp) == [channel |-> channel, resp |-> resp]

(* the Result<ClientRespMsg> built for a request whose resp is None *)
client_resp_msg(req, response) ==
    IF response.ok
    THEN Ok(ClientRespMsg(req.channel, ClientResp(req.op, response.val)))
    ELSE Err(response.err)

(* Send that emits nothing on the stream for a failed request *)
SendOkOnly(req, response) ==
    IF req.resp = "None" /\ response.ok
    THEN Append(stream, client_resp_msg(req, response))
    ELSE stream

(* the delivery of the response: r.send(response) on the request's oneshot, *)
(* or app_sender.send(client_resp_msg)                                      *)
Send(req, response) ==
    IF req.resp = "None" THEN Append(stream, client_resp_msg(req, response))
    ELSE stream

(* NextReq of a supervisor that takes requests while a handler is running *)
NextReqConcurrent(op) ==
    /\ app # "panicked"
    /\ reqQueue # <<>>
    /\ Head(reqQueue).op = op

(* NextReq of a supervisor whose select! polls the workers' queue first:   *)
(* it takes a request only when no frame is waiting                         *)
NextReqBiased(op) ==
    /\ app = "running"
    /\ reqQueue # <<>>
    /\ Head(reqQueue).op = op
    /\ wsQueue = <<>>

(* NextReq of a supervisor that stops taking requests once it has replied *)
(* an error                                                               *)
NextReqHalting(op) ==
    /\ app = "running"
    /\ reqQueue # <<>>
    /\ Head(reqQueue).op = op
    /\ ~(last.kind = "response" /\ ~last.response.ok)

NextReq(op) ==
    /\ app = "running"
    /\ reqQueue # <<>>
    /\ Head(reqQueue).op = op

(* websocket.rs: the worker thread Websocket::new spawns, with the          *)
(* subscribe payload sent on its connection                                 *)
Worker(c) ==
    [alive |-> TRUE, kill_rx |-> <<>>, sent |-> <<subscribe_message(c)>>,
     errors |-> 0]

(* StateSetup looking the channel up in the map of the other kind *)
StateSetupOtherKind(c) ==
    IF c.channel = "Tape"
    THEN IF ~contains_key(books, c) THEN "Ok" ELSE "ChannelAlreadySubscribed"
    ELSE IF ~contains_key(tapes, c) THEN "Ok" ELSE "ChannelAlreadySubscribed"

(* The state entry ClientReq::Start creates: Err(ChannelAlreadySubscribed)  *)
(* when the map of the channel's kind has the key.                          *)
StateSetup(c) ==
    IF c.channel = "Tape"
    THEN IF ~contains_key(tapes, c) THEN "Ok" ELSE "ChannelAlreadySubscribed"
    ELSE IF ~contains_key(books, c) THEN "Ok" ELSE "ChannelAlreadySubscribed"

(* HandleStart creating the state entry only once the connection is set up *)
HandleStartRollback(connected) ==
    /\ NextReq("Start")
    /\ LET req == Head(reqQueue)
           c == req.channel
           state_setup == StateSetup(c)
           done == state_setup = "Ok" /\ connected
           response == IF done THEN Ok("unit")
                       ELSE Err(IF state_setup = "Ok" THEN "Tungstenite" ELSE state_setup)
       IN /\ tapes' = IF done /\ c.channel = "Tape" THEN MapInsert(tapes, c, <<>>) ELSE tapes
          /\ books' = IF done /\ c.channel = "Book" THEN MapInsert(books, c, BookNew) ELSE books
          /\ inserted' = IF done /\ c.channel = "Tape"
                         THEN MapInsert(inserted, c, <<>>) ELSE inserted
          /\ sockets' = IF done THEN MapInsert(sockets, c, Websocket(now)) ELSE sockets
          /\ workers' = IF done THEN MapInsert(workers, c, Worker(c)) ELSE workers
          /\ subscribed' = IF done THEN subscribed \cup {c} ELSE subscribed
          /\ now' = IF done THEN UtcNow(now) ELSE now
          /\ last' = Resp(req, response)
          /\ stream' = Send(req, response)
          /\ started' = started \cup {c}
    /\ reqQueue' = Tail(reqQueue)
    /\ UNCHANGED <<chans, app, wsQueue, nFrm, facade>>


(* HandleStart that leaves the Book of the channel to its first snapshot *)
HandleStartLazy(connected) ==
    /\ NextReq("Start")
    /\ LET req == Head(reqQueue)
           c == req.channel
           state_setup == StateSetup(c)
       IN /\ tapes' = IF state_setup = "Ok" /\ c.channel = "Tape"
                      THEN MapInsert(tapes, c, <<>>) ELSE tapes
          /\ books' = books
          /\ inserted' = IF state_setup = "Ok" /\ c.channel = "Tape"
                         THEN MapInsert(inserted, c, <<>>) ELSE inserted
          /\ IF state_setup = "Ok" /\ connected
             THEN /\ sockets' = MapInsert(sockets, c, Websocket(now))
                  /\ workers' = MapInsert(workers, c, Worker(c))
                  /\ subscribed' = subscribed \cup {c}
                  /\ now' = UtcNow(now)
                  /\ last' = Resp(req, Ok("unit"))
                  /\ stream' = Send(req, Ok("unit"))
             ELSE /\ UNCHANGED <<sockets, workers, subscribed, now>>
                  /\ last' = Resp(req, Err(IF state_setup = "Ok"
                                           THEN "Tungstenite" ELSE state_setup))
                  /\ stream' = Send(req, Err(IF state_setup = "Ok"
                                             THEN "Tungstenite" ELSE state_setup))
          /\ started' = started \cup {c}
    /\ reqQueue' = Tail(reqQueue)
    /\ UNCHANGED <<chans, app, wsQueue, nFrm, facade>>

(* HandleStart that puts an empty entry in the map before it tests the map *)
HandleStartResets(connected) ==
    /\ NextReq("Start")
    /\ LET req == Head(reqQueue)
           c == req.channel
           state_setup == StateSetup(c)
       IN /\ tapes' = IF c.channel = "Tape"
                      THEN MapInsert(tapes, c, <<>>) ELSE tapes
          /\ books' = IF c.channel = "Book"
                      THEN MapInsert(books, c, BookNew) ELSE books
          /\ inserted' = IF state_setup = "Ok" /\ c.channel = "Tape"
                         THEN MapInsert(inserted, c, <<>>) ELSE inserted
          /\ IF state_setup = "Ok" /\ connected
             THEN /\ sockets' = MapInsert(sockets, c, Websocket(now))
                  /\ workers' = MapInsert(workers, c, Worker(c))
                  /\ subscribed' = subscribed \cup {c}
                  /\ now' = UtcNow(now)
                  /\ last' = Resp(req, Ok("unit"))
                  /\ stream' = Send(req, Ok("unit"))
             ELSE /\ UNCHANGED <<sockets, workers, subscribed, now>>
                  /\ last' = Resp(req, Err(IF state_setup = "Ok"
                                           THEN "Tungstenite" ELSE state_setup))
                  /\ stream' = Send(req, Err(IF state_setup = "Ok"
                                             THEN "Tungstenite" ELSE state_setup))
          /\ started' = started \cup {c}
    /\ reqQueue' = Tail(reqQueue)
    /\ UNCHANGED <<chans, app, wsQueue, nFrm, facade>>

(* ClientReq::Start.  connected is the outcome of Websocket::new            *)
(* (connect_async and the send of the subscribe payload).                   *)
HandleStart(connected) ==
    /\ NextReq("Start")
    /\ LET req == Head(reqQueue)
           c == req.channel
           state_setup == StateSetup(c)
       IN /\ tapes' = IF state_setup = "Ok" /\ c.channel = "Tape"
                      THEN MapInsert(tapes, c, <<>>) ELSE tapes
          /\ books' = IF state_setup = "Ok" /\ c.channel = "Book"
                      THEN MapInsert(books, c, BookNew) ELSE books
          /\ inserted' = IF state_setup = "Ok" /\ c.channel = "Tape"
                         THEN MapInsert(inserted, c, <<>>) ELSE inserted
          /\ IF state_setup = "Ok" /\ connected
             THEN /\ sockets' = MapInsert(sockets, c, Websocket(now))
                  /\ workers' = MapInsert(workers, c, Worker(c))
                  /\ subscribed' = subscribed \cup {c}
                  /\ now' = UtcNow(now)
                  /\ last' = Resp(req, Ok("unit"))
                  /\ stream' = Send(req, Ok("unit"))
             ELSE /\ UNCHANGED <<sockets, workers, subscribed, now>>
                  /\ last' = Resp(req, Err(IF state_setup = "Ok"
                                           THEN "Tungstenite" ELSE state_setup))
                  /\ stream' = Send(req, Err(IF state_setup = "Ok"
                                             THEN "Tungstenite" ELSE state_setup))
          /\ started' = started \cup {c}
    /\ reqQueue' = Tail(reqQueue)
    /\ UNCHANGED <<chans, app, wsQueue, nFrm, facade>>

(* StopResponse replying success whether or not a socket was removed *)
StopResponseAlways(socket) == Ok("unit")

(* The Result of ClientReq::Stop, from sockets.remove(&channel) *)
StopResponse(socket) == IF socket.ok THEN Ok("unit") ELSE Err("SocketDoesNotExist")

(* HandleStop that also removes the channel's Tape or Book *)
HandleStopDropEntry ==
    /\ NextReq("Stop")
    /\ LET req == Head(reqQueue)
           c == req.channel
           socket == MapGet(sockets, c)
       IN /\ sockets' = MapRemove(sockets, c)
          /\ workers' = IF socket.ok
                        THEN [workers EXCEPT
                                ![c].sent = Append(@, unsubscribe_message(c)),
                                ![c].kill_rx = Append(@, TRUE)]
                        ELSE workers
          /\ last' = Resp(req, StopResponse(socket))
          /\ stream' = Send(req, StopResponse(socket))
          /\ subscribed' = subscribed \ {c}
          /\ tapes' = MapRemove(tapes, c)
          /\ books' = MapRemove(books, c)
          /\ inserted' = MapRemove(inserted, c)
    /\ reqQueue' = Tail(reqQueue)
    /\ UNCHANGED <<chans, app, wsQueue, started, nFrm, now, facade>>

(* HandleStop that also empties the channel's Tape or Book *)
HandleStopResetEntry ==
    /\ NextReq("Stop")
    /\ LET req == Head(reqQueue)
           c == req.channel
           socket == MapGet(sockets, c)
       IN /\ sockets' = MapRemove(sockets, c)
          /\ workers' = IF socket.ok
                        THEN [workers EXCEPT
                                ![c].sent = Append(@, unsubscribe_message(c)),
                                ![c].kill_rx = Append(@, TRUE)]
                        ELSE workers
          /\ last' = Resp(req, StopResponse(socket))
          /\ stream' = Send(req, StopResponse(socket))
          /\ subscribed' = subscribed \ {c}
          /\ tapes' = IF c \in DOMAIN tapes THEN [tapes EXCEPT ![c] = <<>>] ELSE tapes
          /\ books' = IF c \in DOMAIN books THEN [books EXCEPT ![c] = BookNew] ELSE books
    /\ reqQueue' = Tail(reqQueue)
    /\ UNCHANGED <<chans, app, wsQueue, inserted, started, nFrm, now, facade>>

(* ClientReq::Stop *)
HandleStop ==
    /\ NextReq("Stop")
    /\ LET req == Head(reqQueue)
           c == req.channel
           socket == MapGet(sockets, c)
       IN /\ sockets' = MapRemove(sockets, c)
          /\ workers' = IF socket.ok
                        THEN [workers EXCEPT
                                ![c].sent = Append(@, unsubscribe_message(c)),
                                ![c].kill_rx = Append(@, TRUE)]
                        ELSE workers
          /\ last' = Resp(req, StopResponse(socket))
          /\ stream' = Send(req, StopResponse(socket))
          /\ subscribed' = subscribed \ {c}
    /\ reqQueue' = Tail(reqQueue)
    /\ UNCHANGED <<chans, app, tapes, books, wsQueue, inserted, started, nFrm, now,
                   facade>>

(* TapeResponse replying an empty tape for a channel that has none *)
TapeResponseEmpty(tape) == IF tape.ok THEN Ok(tape.val) ELSE Ok(<<>>)

TapeResponse(tape) == IF tape.ok THEN Ok(tape.val) ELSE Err("ChannelDoesNotExist")

(* HandleTape that moves the Tape out of the map and leaves an empty one *)
HandleTapeTake ==
    /\ NextReq("Tape")
    /\ LET req == Head(reqQueue)
           response == TapeResponse(MapGet(tapes, req.channel))
       IN /\ last' = Resp(req, response)
          /\ stream' = Send(req, response)
          /\ tapes' = IF req.channel \in DOMAIN tapes
                      THEN [tapes EXCEPT ![req.channel] = <<>>] ELSE tapes
    /\ reqQueue' = Tail(reqQueue)
    /\ UNCHANGED <<chans, app, books, sockets, workers, wsQueue, inserted,
                   started, subscribed, nFrm, now, facade>>

(* ClientReq::Tape *)
HandleTape ==
    /\ NextReq("Tape")
    /\ LET req == Head(reqQueue)
           response == TapeResponse(MapGet(tapes, req.channel))
       IN /\ last' = Resp(req, response)
          /\ stream' = Send(req, response)
    /\ reqQueue' = Tail(reqQueue)
    /\ UNCHANGED <<chans, app, tapes, books, sockets, workers, wsQueue, inserted,
                   started, subscribed, nFrm, now, facade>>

BookResponse(book) == IF book.ok THEN Ok(book.val) ELSE Err("ChannelDoesNotExist")

(* ClientReq::Book *)
HandleBook ==
    /\ NextReq("Book")
    /\ LET req == Head(reqQueue)
           response == BookResponse(MapGet(books, req.channel))
       IN /\ last' = Resp(req, response)
          /\ stream' = Send(req, response)
    /\ reqQueue' = Tail(reqQueue)
    /\ UNCHANGED <<chans, app, tapes, books, sockets, workers, wsQueue, inserted,
                   started, subscribed, nFrm, now, facade>>

LastResponse(ws) == IF ws.ok THEN Ok(ws.val.last_message) ELSE Err("SocketDoesNotExist")

(* ClientReq::Last *)
HandleLast ==
    /\ NextReq("Last")
    /\ LET req == Head(reqQueue)
           response == LastResponse(MapGet(sockets, req.channel))
       IN /\ last' = Resp(req, response)
          /\ stream' = Send(req, response)
    /\ reqQueue' = Tail(reqQueue)
    /\ UNCHANGED <<chans, app, tapes, books, sockets, workers, wsQueue, inserted,
                   started, subscribed, nFrm, now, facade>>

----------------------------------------------------------------------------
(* websocket.rs: the worker's receive loop *)

WsMsg(c, m) == [channel |-> c, msg |-> m]

(* read.next() yields Some(Ok(msg)) or Some(Err(e)): the worker forwards it *)
(* with sender.send, whose failure (the app is gone) is ignored.  limit     *)
(* bounds the frames of the run.                                            *)
(* WorkerForward putting the frame at the front of the queue *)
WorkerForwardFront(c, m, limit, depth) ==
    /\ c \in DOMAIN workers
    /\ workers[c].alive
    /\ nFrm < limit
    /\ Len(wsQueue) < depth
    /\ nFrm' = nFrm + 1
    /\ wsQueue' = IF app # "panicked" THEN <<WsMsg(c, m)>> \o wsQueue ELSE wsQueue
    /\ UNCHANGED <<chans, app, tapes, books, sockets, workers, reqQueue, last,
                   inserted, started, subscribed, now, stream, facade>>

WorkerForward(c, m, limit, depth) ==
    /\ c \in DOMAIN workers
    /\ workers[c].alive
    /\ nFrm < limit
    /\ Len(wsQueue) < depth
    /\ nFrm' = nFrm + 1
    /\ wsQueue' = IF app # "panicked" THEN Append(wsQueue, WsMsg(c, m)) ELSE wsQueue
    /\ UNCHANGED <<chans, app, tapes, books, sockets, workers, reqQueue, last,
                   inserted, started, subscribed, now, stream, facade>>

WorkerRead(c, m, limit) == WorkerForward(c, m, limit, MaxQueue)

(* WorkerClosed that also removes the socket record of its channel *)
WorkerClosedRemoves(c) ==
    /\ c \in DOMAIN workers
    /\ workers[c].alive
    /\ workers' = [workers EXCEPT ![c].alive = FALSE]
    /\ sockets' = MapRemove(sockets, c)
    /\ UNCHANGED <<chans, app, tapes, books, reqQueue, wsQueue, last,
                   inserted, started, subscribed, nFrm, now, stream, facade>>

(* read.next() yields None: the exchange closed the connection *)
WorkerClosed(c) ==
    /\ c \in DOMAIN workers
    /\ workers[c].alive
    /\ workers' = [workers EXCEPT ![c].alive = FALSE]
    /\ UNCHANGED <<chans, app, tapes, books, sockets, reqQueue, wsQueue, last,
                   inserted, started, subscribed, nFrm, now, stream, facade>>

(* WorkerKillshot that takes the signal and keeps the loop running *)
WorkerKillshotDeaf(c) ==
    /\ c \in DOMAIN workers
    /\ workers[c].alive
    /\ workers[c].kill_rx # <<>>
    /\ workers' = [workers EXCEPT ![c].kill_rx = Tail(@)]
    /\ UNCHANGED <<chans, app, tapes, books, sockets, reqQueue, wsQueue, last,
                   inserted, started, subscribed, nFrm, now, stream, facade>>

(* WorkerKillshot that ends the loop on any value of the signal *)
WorkerKillshotAny(c) ==
    /\ c \in DOMAIN workers
    /\ workers[c].alive
    /\ workers[c].kill_rx # <<>>
    /\ workers' = [workers EXCEPT ![c].kill_rx = Tail(@),
                                  ![c].alive = FALSE]
    /\ UNCHANGED <<chans, app, tapes, books, sockets, reqQueue, wsQueue, last,
                   inserted, started, subscribed, nFrm, now, stream, facade>>

(* kill_rx.recv() yields Some(k): true ends the loop, false is logged as an *)
(* error ("Killshot false."), counted in errors                             *)
WorkerKillshot(c) ==
    /\ c \in DOMAIN workers
    /\ workers[c].alive
    /\ workers[c].kill_rx # <<>>
    /\ workers' = [workers EXCEPT ![c].kill_rx = Tail(@),
                                  ![c].alive = ~Head(workers[c].kill_rx),
                                  ![c].errors = IF Head(workers[c].kill_rx)
                                                THEN @ ELSE @ + 1]
    /\ UNCHANGED <<chans, app, tapes, books, sockets, reqQueue, wsQueue, last,
                   inserted, started, subscribed, nFrm, now, stream, facade>>

----------------------------------------------------------------------------
(* app.rs: App::handle_ws_msg, run by the supervisor's loop for the next    *)
(* message of the workers' queue.  A panic of the supervisor thread drops   *)
(* both receivers; the maps are kept here as the handler left them.         *)

(* history: the canonical trades a trade message hands to insert_trade *)
Converted(c, m) ==
    CASE c.exchange = "Gdax" -> <<TradeFromTicker(Ticker(m.trades[1])).val>>
      [] c.exchange = "Kraken" -> Unwrapped(TradesFromWsTrades(m.trades))
      [] c.exchange = "Hyperliquid" -> Unwrapped(TradesFromHLTrades(m.trades))

IsTrade(m) == m.frame = "Text" /\ m.shape = "trade"

(* the requests a panic of the supervisor drops unprocessed, each with     *)
(* what its caller's call returns: the oneshot sender is dropped with it    *)
Dropped(queue) ==
    [i \in 1..Len(queue) |->
        [op |-> queue[i].op, channel |-> queue[i].channel,
         returned |-> IF queue[i].resp = "Some"
                      THEN BlockingRequest(TRUE, Err("RecvError"))
                      ELSE AsyncRequest(TRUE)]]

(* HandleWsMsg that discards the frames of a channel that has no socket    *)
(* record                                                                   *)
HandleWsMsgSubscribedOnly ==
    /\ app = "running"
    /\ wsQueue # <<>>
    /\ LET c == Head(wsQueue).channel
           m == Head(wsQueue).msg
           out == IF c \in DOMAIN sockets
                  THEN handle_ws_msg_exchange(tapes, books, sockets, c, m, now)
                  ELSE Outcome("Ok", tapes, books, sockets)
       IN /\ tapes' = out.tapes
          /\ books' = out.books
          /\ sockets' = out.sockets
          /\ app' = Expect(out.result)
          /\ last' = [kind |-> "frame", channel |-> c, msg |-> m,
                      result |-> out.result,
                      dropped |-> IF Expect(out.result) = "running" THEN <<>>
                                  ELSE Dropped(reqQueue)]
          /\ wsQueue' = IF Expect(out.result) = "running" THEN Tail(wsQueue) ELSE <<>>
          /\ reqQueue' = IF Expect(out.result) = "running" THEN reqQueue ELSE <<>>
          /\ inserted' = IF IsTrade(m) /\ c.channel = "Tape" /\ c \in DOMAIN tapes
                            /\ c \in DOMAIN sockets
                         THEN [inserted EXCEPT ![c] = @ \o Converted(c, m)]
                         ELSE inserted
    /\ now' = UtcNow(now)
    /\ UNCHANGED <<chans, workers, started, subscribed, nFrm, stream, facade>>

HandleWsMsg ==
    /\ app = "running"
    /\ wsQueue # <<>>
    /\ LET c == Head(wsQueue).channel
           m == Head(wsQueue).msg
           out == handle_ws_msg_exchange(tapes, books, sockets, c, m, now)
       IN /\ tapes' = out.tapes
          /\ books' = out.books
          /\ sockets' = out.sockets
          /\ app' = Expect(out.result)
          /\ last' = [kind |-> "frame", channel |-> c, msg |-> m,
                      result |-> out.result,
                      dropped |-> IF Expect(out.result) = "running" THEN <<>>
                                  ELSE Dropped(reqQueue)]
          /\ wsQueue' = IF Expect(out.result) = "running" THEN Tail(wsQueue) ELSE <<>>
          /\ reqQueue' = IF Expect(out.result) = "running" THEN reqQueue ELSE <<>>
          /\ inserted' = IF IsTrade(m) /\ c.channel = "Tape" /\ c \in DOMAIN tapes
                         THEN [inserted EXCEPT ![c] = @ \o Converted(c, m)]
                         ELSE inserted
    /\ now' = UtcNow(now)
    /\ UNCHANGED <<chans, workers, started, subscribed, nFrm, stream, facade>>

----------------------------------------------------------------------------
(* The handlers of the supervisor step by step.  The loop awaits the        *)
(* handler inside the body of its select! branch, so that the thread is in  *)
(* the handler ("handling") until it returns; last holds what the handler   *)
(* has still to do.                                                         *)

(* the maps as the handler found them *)
Before(c) ==
    [tapes |-> tapes, books |-> books, sockets |-> sockets, now |-> now,
     pre |-> Pre(c)]

Partial(of, c, item, todo) ==
    [kind |-> "partial", of |-> of, channel |-> c, item |-> item, todo |-> todo,
     before |-> Before(c)]

(* the levels a book update removes or inserts, in the order of its loops *)
Updates(m) ==
    CASE m.shape = "l2update" ->
            [i \in 1..Len(m.changes) |->
                [op |-> "level",
                 side |-> IF m.changes[i][1] = "buy" THEN "bids" ELSE "asks",
                 price |-> m.changes[i][2], size |-> m.changes[i][3]]]
      [] m.shape \in {"ask", "bid", "both"} ->
            [i \in 1..Len(m.bids) |->
                [op |-> "level", side |-> "bids",
                 price |-> m.bids[i][1], size |-> m.bids[i][2]]]
            \o [i \in 1..Len(m.asks) |->
                [op |-> "level", side |-> "asks",
                 price |-> m.asks[i][1], size |-> m.asks[i][2]]]

(* what the handler of a message does to the maps, one insert_trade, one    *)
(* level or one books.insert at a time                                      *)
StepsOf(c, m) ==
    CASE m.shape = "trade" ->
            [i \in 1..Len(Converted(c, m)) |->
                [op |-> "trade", trade |-> Converted(c, m)[i]]]
      [] m.shape = "snapshot" ->
            <<[op |-> "snapshot",
               book |-> [bids |-> Extend(EmptyMap, m.bids),
                         asks |-> Extend(EmptyMap, m.asks)]]>>
      [] m.shape \in {"l2update", "ask", "bid", "both"} -> Updates(m)
      [] OTHER -> <<>>

(* the supervisor takes the next message of the workers' queue and enters   *)
(* its handler: update_last, and the decoding of the text                   *)
BeginWsMsg ==
    /\ app = "running"
    /\ wsQueue # <<>>
    /\ LET c == Head(wsQueue).channel
           m == Head(wsQueue).msg
       IN /\ handle_ws_msg_exchange(tapes, books, sockets, c, m, now).result = "Ok"
          /\ sockets' = update_last(sockets, c, now)
          /\ last' = Partial("frame", c, m, StepsOf(c, m))
    /\ app' = "handling"
    /\ wsQueue' = Tail(wsQueue)
    /\ now' = UtcNow(now)
    /\ UNCHANGED <<chans, tapes, books, workers, reqQueue, inserted, started,
                   subscribed, stream, nFrm, facade>>

(* the next insert_trade, level or books.insert of the handler, or its      *)
(* return to the loop                                                       *)
StepWsMsg ==
    /\ app = "handling"
    /\ last.kind = "partial"
    /\ last.of = "frame"
    /\ IF last.todo = <<>>
       THEN /\ app' = "running"
            /\ last' = [kind |-> "frame", channel |-> last.channel, msg |-> last.item,
                        result |-> "Ok", dropped |-> <<>>]
            /\ UNCHANGED <<tapes, books, inserted>>
       ELSE LET o == Head(last.todo)
                c == last.channel
            IN /\ tapes' = IF o.op = "trade" THEN insert_trade(tapes, c, o.trade)
                           ELSE tapes
               /\ inserted' = IF o.op = "trade" /\ c \in DOMAIN tapes
                              THEN [inserted EXCEPT ![c] = Append(@, o.trade)]
                              ELSE inserted
               /\ books' = CASE o.op = "level" ->
                                  UpdateLevel(books, c, o.side, o.price, o.size)
                             [] o.op = "snapshot" -> MapInsert(books, c, o.book)
                             [] OTHER -> books
               /\ last' = [last EXCEPT !.todo = Tail(@)]
               /\ app' = app
    /\ UNCHANGED <<chans, sockets, workers, reqQueue, wsQueue, started, subscribed,
                   stream, nFrm, now, facade>>

(* ClientReq::Start up to the await of Websocket::new: the state setup *)
BeginStart ==
    /\ NextReq("Start")
    /\ LET req == Head(reqQueue)
           c == req.channel
       IN /\ StateSetup(c) = "Ok"
          /\ tapes' = IF c.channel = "Tape" THEN MapInsert(tapes, c, <<>>) ELSE tapes
          /\ books' = IF c.channel = "Book" THEN MapInsert(books, c, BookNew) ELSE books
          /\ inserted' = IF c.channel = "Tape" THEN MapInsert(inserted, c, <<>>)
                         ELSE inserted
          /\ started' = started \cup {c}
          /\ last' = Partial("Start", c, req, <<>>)
    /\ app' = "handling"
    /\ reqQueue' = Tail(reqQueue)
    /\ UNCHANGED <<chans, sockets, workers, wsQueue, subscribed, stream, nFrm, now,
                   facade>>

(* ClientReq::Start from the outcome of Websocket::new on *)
FinishStart(connected) ==
    /\ app = "handling"
    /\ last.kind = "partial"
    /\ last.of = "Start"
    /\ LET req == last.item
           c == req.channel
           response == IF connected THEN Ok("unit") ELSE Err("Tungstenite")
       IN /\ IF connected
             THEN /\ sockets' = MapInsert(sockets, c, Websocket(now))
                  /\ workers' = MapInsert(workers, c, Worker(c))
                  /\ subscribed' = subscribed \cup {c}
                  /\ now' = UtcNow(now)
             ELSE UNCHANGED <<sockets, workers, subscribed, now>>
          /\ last' = [Resp(req, response) EXCEPT !.pre = last.before.pre]
          /\ stream' = Send(req, response)
    /\ app' = "running"
    /\ UNCHANGED <<chans, tapes, books, reqQueue, wsQueue, inserted, started, nFrm,
                   facade>>

(* ClientReq::Start of a channel that has its entry: no await *)
RejectStart ==
    /\ NextReq("Start")
    /\ StateSetup(Head(reqQueue).channel) # "Ok"
    /\ HandleStart(FALSE)

(* ClientReq::Stop up to the await of ws.write.send: sockets.remove *)
BeginStop ==
    /\ NextReq("Stop")
    /\ LET req == Head(reqQueue)
           c == req.channel
       IN /\ c \in DOMAIN sockets
          /\ last' = Partial("Stop", c, req, <<>>)
          /\ sockets' = MapRemove(sockets, c)
    /\ app' = "handling"
    /\ reqQueue' = Tail(reqQueue)
    /\ UNCHANGED <<chans, tapes, books, workers, wsQueue, inserted, started,
                   subscribed, stream, nFrm, now, facade>>

(* ClientReq::Stop from the send of the unsubscribe payload on *)
FinishStop ==
    /\ app = "handling"
    /\ last.kind = "partial"
    /\ last.of = "Stop"
    /\ LET req == last.item
           c == req.channel
       IN /\ workers' = [workers EXCEPT
                            ![c].sent = Append(@, unsubscribe_message(c)),
                            ![c].kill_rx = Append(@, TRUE)]
          /\ subscribed' = subscribed \ {c}
          /\ last' = [Resp(req, Ok("unit")) EXCEPT !.pre = last.before.pre]
          /\ stream' = Send(req, Ok("unit"))
    /\ app' = "running"
    /\ UNCHANGED <<chans, tapes, books, sockets, reqQueue, wsQueue, inserted,
                   started, nFrm, now, facade>>

(* ClientReq::Stop of a channel that has no socket record: no await *)
RejectStop ==
    /\ NextReq("Stop")
    /\ Head(reqQueue).channel \notin DOMAIN sockets
    /\ HandleStop

(* interval.tick() of the supervisor's and of the workers' loops: no effect *)
Tick == UNCHANGED vars

----------------------------------------------------------------------------
(* Spec: the requests of the callers, the workers and the supervisor, with  *)
(* one frame of each kind                                                   *)

(* the price and size texts of the trade events *)
Text100_0 == <<"1", "0", "0", ".", "0">>

Text100_5 == <<"1", "0", "0", ".", "5">>

Text101_0 == <<"1", "0", "1", ".", "0">>

Text1 == <<"1">>

Text2 == <<"2">>

(* the time k seconds after the epoch, in the encoding of each exchange *)
NativeTime(exchange, k) ==
    CASE exchange = "Gdax" -> IsoTime(Digits(k), <<"0", "0", "0">>)
      [] exchange = "Kraken" ->
            [i \in 1..Len(Digits(k)) |-> CharOf(Digits(k)[i])]
            \o <<".", "0", "0", "0", "0", "0", "0">>
      [] exchange = "Hyperliquid" -> Normal(Digits(k) \o Zeros(3))

SomeTrades(exchange) ==
    <<NativeTrade(Text100_0, Text1, NativeTime(exchange, 1)),
      NativeTrade(Text100_5, Text2, NativeTime(exchange, 2))>>

Frames(exchange) ==
    {ErrFrame, TextFrame("info"), TradeFrame(<<SomeTrades(exchange)[1]>>),
     SnapshotFrame(<<<<10, 1>>>>, <<<<11, 2>>>>)}

Next ==
    \/ \E op \in Ops, c \in chans : ClientCall(op, c)
    \/ \E op \in Ops, c \in chans : ClientCallClosed(op, c)
    \/ \E connected \in BOOLEAN : HandleStart(connected)
    \/ HandleStop
    \/ HandleTape
    \/ HandleBook
    \/ HandleLast
    \/ \E c \in chans : \E m \in Frames(c.exchange) : WorkerRead(c, m, MaxFrames)
    \/ \E c \in chans : WorkerClosed(c)
    \/ \E c \in chans : WorkerKillshot(c)
    \/ HandleWsMsg
    \/ Tick

Spec == Init /\ [][Next]_vars

----------------------------------------------------------------------------
(* The state in which the first request, Start(c), has just succeeded *)

InitSubscribed(c) ==
    /\ chans = {c}
    /\ app = "running"
    /\ tapes = IF c.channel = "Tape" THEN MapInsert(EmptyMap, c, <<>>) ELSE EmptyMap
    /\ books = IF c.channel = "Book" THEN MapInsert(EmptyMap, c, BookNew) ELSE EmptyMap
    /\ sockets = MapInsert(EmptyMap, c, Websocket(0))
    /\ workers = MapInsert(EmptyMap, c, Worker(c))
    /\ reqQueue = <<>>
    /\ wsQueue = <<>>
    /\ last = [kind |-> "response", op |-> "Start", channel |-> c,
               response |-> Ok("unit"),
               pre |-> [started |-> FALSE, subscribed |-> FALSE, socket |-> FALSE,
                        entry |-> FALSE, stopped |-> FALSE],
               returned |-> Ok("unit")]
    /\ inserted = IF c.channel = "Tape" THEN MapInsert(EmptyMap, c, <<>>) ELSE EmptyMap
    /\ started = {c}
    /\ subscribed = {c}
    /\ stream = <<>>
    /\ facade = "held"
    /\ nFrm = 0
    /\ now = 1

----------------------------------------------------------------------------
(* SpecFrames: one subscribed channel, of any exchange and kind, and the    *)
(* frames its connection delivers, of every shape                           *)

Levels == Prices \X Sizes

Changes == Side \X Prices \X Sizes

SeqsUpTo(S, n) == UNION {[1..k -> S] : k \in 0..n}

TradeLists(exchange) ==
    IF exchange = "Gdax"
    THEN {<<SomeTrades(exchange)[i]>> : i \in 1..Len(SomeTrades(exchange))}
    ELSE SeqsUpTo({SomeTrades(exchange)[i] : i \in 1..Len(SomeTrades(exchange))},
                  MaxLevels) \ {<<>>}

(* bids and asks with at most MaxLevels levels between them *)
LevelPairs ==
    {p \in SeqsUpTo(Levels, MaxLevels) \X SeqsUpTo(Levels, MaxLevels) :
        Len(p[1]) + Len(p[2]) <= MaxLevels}

(* the bids and asks of a snapshot: at most MaxSnapshotLevels a side *)
SnapshotPairs ==
    SeqsUpTo(Levels, MaxSnapshotLevels) \X SeqsUpTo(Levels, MaxSnapshotLevels)

UpdateFrames(exchange) ==
    CASE exchange = "Gdax" ->
            {L2updateFrame(ch) : ch \in SeqsUpTo(Changes, MaxLevels) \ {<<>>}}
      [] exchange = "Kraken" ->
            {KrakenUpdateFrame("ask", <<>>, a) : a \in SeqsUpTo(Levels, MaxLevels) \ {<<>>}}
            \cup
            {KrakenUpdateFrame("bid", b, <<>>) : b \in SeqsUpTo(Levels, MaxLevels) \ {<<>>}}
            \cup
            {KrakenUpdateFrame("both", p[1], p[2]) :
                p \in {q \in LevelPairs : q[1] # <<>> /\ q[2] # <<>>}}
      [] OTHER -> {}

AllFrames(exchange) ==
    {ErrFrame, NonTextFrame, TextFrame("garbage"), TextFrame("info"),
     TextFrame("established")}
    \cup {TradeFrame(t) : t \in TradeLists(exchange)}
    \cup {SnapshotFrame(p[1], p[2]) : p \in SnapshotPairs}
    \cup UpdateFrames(exchange)

InitFrames ==
    \E c \in Channel : c.market = "BTC-USD" /\ InitSubscribed(c)

(* the frames of each exchange, computed once *)
FramesOf == [e \in Exchange |-> AllFrames(e)]

NextFrames ==
    \/ \E c \in chans : \E m \in FramesOf[c.exchange] : WorkerRead(c, m, MaxBookFrames)
    \/ HandleWsMsg

SpecFrames == InitFrames /\ [][NextFrames]_vars

----------------------------------------------------------------------------
(* SpecTape: one subscribed Tape channel and a long run of trade messages.  *)
(* The k-th message carries the time k: one trade on gdax and hyperliquid,  *)
(* two on kraken.                                                           *)

NextTrades(c) ==
    IF c.exchange = "Kraken"
    THEN TradeFrame(<<NativeTrade(Text100_0, Text1, NativeTime(c.exchange, nFrm + 1)),
                      NativeTrade(Text100_5, Text2, NativeTime(c.exchange, nFrm + 1))>>)
    ELSE TradeFrame(<<NativeTrade(Text100_0, Text1, NativeTime(c.exchange, nFrm + 1))>>)

InitTape ==
    \E c \in Channel : c.market = "BTC-USD" /\ c.channel = "Tape" /\ InitSubscribed(c)

NextTape ==
    \/ \E c \in chans : WorkerRead(c, NextTrades(c), MaxTapeFrames)
    \/ HandleWsMsg

SpecTape == InitTape /\ [][NextTape]_vars

----------------------------------------------------------------------------
(* SpecOrder: two subscribed Tape channels whose workers forward trade      *)
(* messages, the k-th forwarded message carrying the time k, several of     *)
(* which wait in the supervisor's queue, and callers that ask for the tapes *)

OrderChannelSets ==
    {{Chan("Kraken", "Tape", "BTC-USD"), Chan("Kraken", "Tape", "ETH-USD")},
     {Chan("Gdax", "Tape", "BTC-USD"), Chan("Hyperliquid", "Tape", "BTC-USD")}}

(* the state in which Start(c1) and then Start(c2) have succeeded *)
InitBothSubscribed(c1, c2) ==
    /\ chans = {c1, c2}
    /\ app = "running"
    /\ tapes = MapInsert(MapInsert(EmptyMap, c1, <<>>), c2, <<>>)
    /\ books = EmptyMap
    /\ sockets = MapInsert(MapInsert(EmptyMap, c1, Websocket(0)), c2, Websocket(1))
    /\ workers = MapInsert(MapInsert(EmptyMap, c1, Worker(c1)), c2, Worker(c2))
    /\ reqQueue = <<>>
    /\ wsQueue = <<>>
    /\ last = [kind |-> "response", op |-> "Start", channel |-> c2,
               response |-> Ok("unit"),
               pre |-> [started |-> FALSE, subscribed |-> FALSE, socket |-> FALSE,
                        entry |-> FALSE, stopped |-> FALSE],
               returned |-> Ok("unit")]
    /\ inserted = MapInsert(MapInsert(EmptyMap, c1, <<>>), c2, <<>>)
    /\ started = {c1, c2}
    /\ subscribed = {c1, c2}
    /\ stream = <<>>
    /\ facade = "held"
    /\ nFrm = 0
    /\ now = 2

InitOrder ==
    \E cs \in OrderChannelSets : \E c1, c2 \in cs : c1 # c2 /\ InitBothSubscribed(c1, c2)

NextOrder ==
    \/ \E c \in chans : WorkerForward(c, NextTrades(c), MaxOrderFrames, MaxOrderQueue)
    \/ HandleWsMsg
    \/ \E c \in chans : ClientCall("Tape", c)
    \/ HandleTape

SpecOrder == InitOrder /\ [][NextOrder]_vars

----------------------------------------------------------------------------
(* SpecAsync: AsyncClient::new and the calls of AsyncClient on one channel, *)
(* with the channel's worker and the supervisor                             *)

InitAsync ==
    /\ chans \in {{c} : c \in {d \in Channel : d.market = "BTC-USD"}}
    /\ InitCommon

NextAsync ==
    \/ \E op \in Ops, c \in chans : AsyncCall(op, c, MaxRequests)
    \/ \E op \in Ops, c \in chans : AsyncCallClosed(op, c)
    \/ \E connected \in BOOLEAN : HandleStart(connected)
    \/ HandleStop
    \/ HandleTape
    \/ HandleBook
    \/ HandleLast
    \/ \E c \in chans : \E m \in Frames(c.exchange) : WorkerRead(c, m, MaxFrames)
    \/ \E c \in chans : WorkerClosed(c)
    \/ \E c \in chans : WorkerKillshot(c)
    \/ HandleWsMsg

SpecAsync == InitAsync /\ [][NextAsync]_vars

----------------------------------------------------------------------------
(* SpecSteps: the calls of BlockingClient on one channel, the channel's     *)
(* worker and the supervisor, whose handlers take one step at a time;       *)
(* the frames are those of the channel's kind, of several parts             *)

StepFrames(c) ==
    IF c.channel = "Tape"
    THEN {TradeFrame(t) : t \in TradeLists(c.exchange)}
    ELSE {SnapshotFrame(<<<<10, 1>>>>, <<<<11, 2>>>>)}
         \cup (CASE c.exchange = "Gdax" ->
                      {L2updateFrame(<<<<"buy", 10, 2>>, <<"sell", 11, 1>>>>)}
                 [] c.exchange = "Kraken" ->
                      {KrakenUpdateFrame("both", <<<<10, 2>>>>, <<<<11, 1>>>>)}
                 [] OTHER -> {})

NextSteps ==
    \/ \E op \in Ops, c \in chans : ClientCall(op, c)
    \/ BeginStart
    \/ \E connected \in BOOLEAN : FinishStart(connected)
    \/ RejectStart
    \/ BeginStop
    \/ FinishStop
    \/ RejectStop
    \/ HandleTape
    \/ HandleBook
    \/ HandleLast
    \/ \E c \in chans : \E m \in StepFrames(c) : WorkerRead(c, m, MaxStepFrames)
    \/ \E c \in chans : WorkerClosed(c)
    \/ \E c \in chans : WorkerKillshot(c)
    \/ BeginWsMsg
    \/ StepWsMsg

SpecSteps == InitAsync /\ [][NextSteps]_vars

----------------------------------------------------------------------------
(* SpecLast: one subscribed channel, frames of every kind of outcome, and   *)
(* callers that ask for the time of the last message                        *)

LastFrames(exchange) == Frames(exchange) \cup {NonTextFrame, TextFrame("garbage")}

NextLast ==
    \/ \E c \in chans : \E m \in LastFrames(c.exchange) : WorkerRead(c, m, MaxLastFrames)
    \/ HandleWsMsg
    \/ \E c \in chans : ClientCall("Last", c)
    \/ HandleLast

SpecLast == InitFrames /\ [][NextLast]_vars

----------------------------------------------------------------------------
(* SpecWorker: the receive loop of one worker with every input it can get:  *)
(* frames and the close of the connection, the idle tick, and both values   *)
(* of the signal on its killshot channel, whose sender is a public field of *)
(* Websocket                                                                *)

KillshotSend(c, k) ==
    /\ c \in DOMAIN workers
    /\ workers[c].alive
    /\ Len(workers[c].kill_rx) + workers[c].errors < MaxSignals
    /\ workers' = [workers EXCEPT ![c].kill_rx = Append(@, k)]
    /\ UNCHANGED <<chans, app, tapes, books, sockets, reqQueue, wsQueue, last,
                   inserted, started, subscribed, nFrm, now, stream, facade>>

NextWorker ==
    \/ \E c \in chans : \E m \in LastFrames(c.exchange) :
          WorkerRead(c, m, MaxWorkerFrames)
    \/ \E c \in chans : WorkerClosed(c)
    \/ \E c \in chans : \E k \in BOOLEAN : KillshotSend(c, k)
    \/ \E c \in chans : WorkerKillshot(c)
    \/ Tick
    \/ HandleWsMsg

SpecWorker == InitFrames /\ [][NextWorker]_vars

----------------------------------------------------------------------------
(* SpecFair: one subscribed channel whose connection never stops delivering *)
(* messages, a client that keeps making requests, and the supervisor.       *)
(* select! polls its ready branches in a random order, so a request that    *)
(* waits while the loop is at its select! is eventually the one taken.      *)

StreamFrames == {ErrFrame, NonTextFrame, TextFrame("info")}

(* the worker forwards the next message of an endless stream; the count of  *)
(* the frames stops at MaxFrames                                            *)
WorkerStream(c, m) ==
    /\ c \in DOMAIN workers
    /\ workers[c].alive
    /\ Len(wsQueue) < MaxQueue
    /\ nFrm' = IF nFrm < MaxFrames THEN nFrm + 1 ELSE nFrm
    /\ wsQueue' = IF app # "panicked" THEN Append(wsQueue, WsMsg(c, m)) ELSE wsQueue
    /\ UNCHANGED <<chans, app, tapes, books, sockets, workers, reqQueue, last,
                   inserted, started, subscribed, now, stream, facade>>

NextFair ==
    \/ \E op \in {"Start", "Stop"}, c \in chans : ClientCall(op, c)
    \/ \E connected \in BOOLEAN : HandleStart(connected)
    \/ HandleStop
    \/ \E c \in chans : \E m \in StreamFrames : WorkerStream(c, m)
    \/ \E c \in chans : WorkerKillshot(c)
    \/ HandleWsMsg
    \/ Tick

SpecFair ==
    /\ InitFrames
    /\ [][NextFair]_vars
    /\ WF_vars((\E connected \in BOOLEAN : HandleStart(connected)) \/ HandleStop)

----------------------------------------------------------------------------
(* SpecLive: one subscribed channel, a client that makes requests and is    *)
(* then dropped, the worker and the supervisor.  Both loops are a select!   *)
(* that takes a branch whenever one is ready, and select! chooses among the *)
(* ready branches at random: the supervisor keeps handling while a queue    *)
(* holds something, and the worker takes a signal that is waiting.          *)

(* the client goes out of scope: its sender of the request queue is dropped *)
DropFacade ==
    /\ facade = "held"
    /\ facade' = "dropped"
    /\ UNCHANGED <<chans, app, tapes, books, sockets, workers, reqQueue, wsQueue,
                   last, inserted, started, subscribed, stream, nFrm, now>>

(* recv.recv() yields None: the queue is empty and every sender is gone.    *)
(* "if let Some(r) = req" fails, the body of the branch is empty, and the   *)
(* loop starts its next pass.                                               *)
RecvNone ==
    /\ app = "running"
    /\ facade = "dropped"
    /\ reqQueue = <<>>
    /\ UNCHANGED vars

NextLive ==
    \/ \E op \in {"Start", "Stop"}, c \in chans : ClientCall(op, c)
    \/ DropFacade
    \/ \E connected \in BOOLEAN : HandleStart(connected)
    \/ HandleStop
    \/ RecvNone
    \/ \E c \in chans : \E m \in Frames(c.exchange) : WorkerRead(c, m, MaxFrames)
    \/ \E c \in chans : WorkerKillshot(c)
    \/ HandleWsMsg
    \/ Tick

(* a pass of the supervisor's loop that takes a request or a frame: the    *)
(* handler runs, and ends the pass or panics                                *)
Pass ==
    /\ app = "running"
    /\ \/ /\ reqQueue # <<>>
          /\ reqQueue' = Tail(reqQueue) /\ wsQueue' = wsQueue /\ app' = app
       \/ /\ wsQueue # <<>>
          /\ \/ wsQueue' = Tail(wsQueue) /\ reqQueue' = reqQueue /\ app' = app
             \/ wsQueue' = <<>> /\ reqQueue' = <<>> /\ app' = "panicked"

SpecLive ==
    /\ InitFrames
    /\ [][NextLive]_vars
    /\ WF_<<app, reqQueue, wsQueue>>(Pass)
    /\ WF_vars(\E c \in Channel : WorkerKillshot(c))

----------------------------------------------------------------------------
(* SpecConvert: one subscribed Tape channel and trade messages whose prices *)
(* and times take the values the conversions treat differently              *)

TradePrices == {Text100_0, Text100_5, Text101_0}

(* 2023-06-09T00:26:08Z, as epoch seconds *)
SomeSecond == <<1, 6, 8, 6, 2, 7, 0, 3, 6, 8>>

(* native times: one with milliseconds, one with digits below the           *)
(* millisecond, and the largest value of the native type (kraken: the       *)
(* second after the largest time that fits i64 nanoseconds)                 *)
TradeTimes(exchange) ==
    CASE exchange = "Gdax" ->
            {IsoTime(SomeSecond, <<"9", "8">>),
             IsoTime(SomeSecond, <<"0", "6", "1", "7", "6", "9">>),
             IsoTime(SomeSecond, <<"1", "2", "3", "4", "5", "6", "7", "8", "9", "9">>)}
      [] exchange = "Kraken" ->
            {<<"1", "6", "8", "5", "8", "9", "5", "9", "4", "4", ".",
               "6", "2", "0", "5", "0">>,
             <<"9", "2", "2", "3", "3", "7", "2", "0", "3", "6", ".",
               "8", "5", "4", "7", "7", "5", "8", "0", "7">>,
             <<"9", "2", "2", "3", "3", "7", "2", "0", "3", "7", ".", "0">>}
      [] exchange = "Hyperliquid" ->
            {<<1, 6, 8, 6, 2, 7, 0, 3, 6, 8, 9, 8, 0>>,
             <<9, 9, 9>>,
             I64Max}

ConvertFrames(exchange) ==
    {TradeFrame(<<NativeTrade(price, Text1, time)>>) :
        price \in TradePrices, time \in TradeTimes(exchange)}
    \cup
    (IF exchange = "Gdax" THEN {}
     ELSE {TradeFrame(<<NativeTrade(Text100_0, Text1, t1),
                        NativeTrade(Text100_5, Text2, t2)>>) :
              t1 \in TradeTimes(exchange), t2 \in TradeTimes(exchange)})

(* the frames of each exchange, computed once *)
ConvertFramesOf == [e \in Exchange |-> ConvertFrames(e)]

NextConvert ==
    \/ \E c \in chans : \E m \in ConvertFramesOf[c.exchange] :
            WorkerRead(c, m, MaxConvertFrames)
    \/ HandleWsMsg

SpecConvert == InitTape /\ [][NextConvert]_vars

----------------------------------------------------------------------------
(* Properties of the request handlers (Spec)                                *)

IsResponse(op) == last.kind = "response" /\ last.op = op

(* C1: a Start(c) handled while c is subscribed (a Start(c) succeeded and   *)
(* no Stop(c) was handled since) is answered ChannelAlreadySubscribed.      *)
C1_StartTwice ==
    (IsResponse("Start") /\ last.pre.subscribed)
        => last.response = Err("ChannelAlreadySubscribed")

(* a second Start(c) was answered after frames of c's connection were handled *)
C1_Witness ==
    /\ IsResponse("Start")
    /\ last.pre.subscribed
    /\ last.channel \in DOMAIN sockets
    /\ nFrm > 0
    /\ wsQueue = <<>>
    /\ app = "running"

(* C2: for a channel no Start was handled for, Tape and Book are answered   *)
(* ChannelDoesNotExist and Last is answered SocketDoesNotExist.             *)
C2_NeverStarted ==
    (last.kind = "response" /\ ~last.pre.started) =>
        /\ last.op \in {"Tape", "Book"} => last.response = Err("ChannelDoesNotExist")
        /\ last.op = "Last" => last.response = Err("SocketDoesNotExist")

(* Tape(c) was answered for a never started c while the other channel is    *)
(* subscribed and has had a frame handled                                   *)
C2_Witness ==
    /\ IsResponse("Tape")
    /\ ~last.pre.started
    /\ subscribed # {}
    /\ nFrm > 0
    /\ wsQueue = <<>>
    /\ app = "running"

(* C3: Stop(c) is answered SocketDoesNotExist when sockets has no record of *)
(* c and success otherwise; once it is answered sockets has no record of c; *)
(* sockets holds exactly the subscribed channels, and a Stop(c) or Last(c)  *)
(* handled while c is not subscribed is answered SocketDoesNotExist.        *)
C3_Stop ==
    /\ DOMAIN sockets = subscribed
    /\ IsResponse("Stop") =>
          /\ last.response = IF last.pre.socket THEN Ok("unit")
                             ELSE Err("SocketDoesNotExist")
          /\ last.pre.socket = last.pre.subscribed
          /\ last.channel \notin DOMAIN sockets
    /\ (last.kind = "response" /\ last.op \in {"Stop", "Last"} /\ ~last.pre.subscribed)
          => last.response = Err("SocketDoesNotExist")

(* a second Stop(c) was answered after a Stop(c) that succeeded: the worker *)
(* of c was sent the subscribe and the unsubscribe payload                  *)
C3_Witness ==
    /\ IsResponse("Stop")
    /\ ~last.pre.socket
    /\ last.channel \in DOMAIN workers
    /\ Len(workers[last.channel].sent) = 2
    /\ last.response = Err("SocketDoesNotExist")

RequestErrors == {"ChannelAlreadySubscribed", "ChannelDoesNotExist", "SocketDoesNotExist"}

HandleClientReq ==
    \/ \E connected \in BOOLEAN : HandleStart(connected)
    \/ HandleStop
    \/ HandleTape
    \/ HandleBook
    \/ HandleLast

(* C7: when the supervisor's last step answered a request with one of the   *)
(* request-level errors, the supervisor is running, and a request enqueued  *)
(* since can be taken by its handler.                                       *)
C7_RequestErrors ==
    (last.kind = "response" /\ ~last.response.ok /\ last.response.err \in RequestErrors)
        => /\ app = "running"
           /\ reqQueue # <<>> => ENABLED HandleClientReq

(* a request is waiting behind one that was answered with an error *)
C7_Witness ==
    /\ last.kind = "response"
    /\ last.response = Err("ChannelDoesNotExist")
    /\ reqQueue # <<>>
    /\ app = "running"

----------------------------------------------------------------------------
(* Properties of the frame handlers (SpecFrames)                            *)

IsFrameResult(results) == last.kind = "frame" /\ last.result \in results

(* C4: after a frame that fails to decode, or a transport-error frame, the  *)
(* supervisor is still running.                                             *)
C4_FrameErrorIsolated ==
    IsFrameResult({"Serde", "Tungstenite"}) => app = "running"

(* C5: handling a trade message of a Book channel results in                *)
(* ChannelResponseMismatch and changes no Book and no Tape, whatever the    *)
(* exchange and the number of trades in the message.                        *)
C5_Mismatch ==
    [][(/\ HandleWsMsg
        /\ IsTrade(Head(wsQueue).msg)
        /\ Head(wsQueue).channel.channel = "Book")
       => (/\ last'.result = "ChannelResponseMismatch"
           /\ books' = books
           /\ tapes' = tapes)]_vars

(* a message of two trades was handled on a Book channel whose book a       *)
(* snapshot had filled                                                      *)
C5_Witness ==
    /\ IsFrameResult({"ChannelResponseMismatch"})
    /\ IsTrade(last.msg)
    /\ Len(last.msg.trades) = 2
    /\ last.channel.channel = "Book"
    /\ last.channel \in DOMAIN books
    /\ books[last.channel].bids # EmptyMap

(* C6: after a frame whose handling raised ChannelResponseMismatch the      *)
(* supervisor is still running.                                             *)
C6_MismatchIsolated ==
    IsFrameResult({"ChannelResponseMismatch"}) => app = "running"

BookSides == {"bids", "asks"}

(* C8: no Book holds a level of size zero, on either side. *)
C8_NoZeroLevel ==
    \A c \in DOMAIN books : \A side \in BookSides :
        \A price \in DOMAIN books[c][side] : books[c][side][price] # 0

(* the deltas of a book update, in arrival order: <<side, price, size>> *)
DeltasOf(m) ==
    CASE m.shape = "l2update" ->
            [i \in 1..Len(m.changes) |->
                <<IF m.changes[i][1] = "buy" THEN "bids" ELSE "asks",
                  m.changes[i][2], m.changes[i][3]>>]
      [] m.shape = "ask" -> [i \in 1..Len(m.asks) |-> <<"asks", m.asks[i][1], m.asks[i][2]>>]
      [] m.shape = "bid" -> [i \in 1..Len(m.bids) |-> <<"bids", m.bids[i][1], m.bids[i][2]>>]
      [] m.shape = "both" ->
            [i \in 1..Len(m.bids) |-> <<"bids", m.bids[i][1], m.bids[i][2]>>]
            \o [i \in 1..Len(m.asks) |-> <<"asks", m.asks[i][1], m.asks[i][2]>>]

IsDelta(m) == m.frame = "Text" /\ m.shape \in {"l2update", "ask", "bid", "both"}

(* the index of the last delta of (side, price), 0 when there is none *)
LastWrite(deltas, side, price) ==
    LET idx == {i \in 1..Len(deltas) : deltas[i][1] = side /\ deltas[i][2] = price}
    IN IF idx = {} THEN 0 ELSE CHOOSE i \in idx : \A j \in idx : j <= i

(* a side of the book after the deltas: a price keeps its size when no      *)
(* delta names it, and otherwise has the size of the last delta naming it,  *)
(* or no level when that size is zero                                       *)
SideAfter(levels, deltas, side) ==
    LET named == {deltas[i][2] : i \in 1..Len(deltas)}
        size(price) == LET i == LastWrite(deltas, side, price)
                       IN IF i = 0 THEN levels[price] ELSE deltas[i][3]
        kept == {price \in DOMAIN levels \cup named :
                    IF LastWrite(deltas, side, price) = 0
                    THEN price \in DOMAIN levels
                    ELSE size(price) # 0}
    IN [price \in kept |-> size(price)]

(* C10: handling a book update on a channel that has a Book leaves each     *)
(* side with, for every price, the size of the last delta of that side and  *)
(* price (no level when it is zero), and the levels no delta names as they  *)
(* were; no other Book changes.                                             *)
C10_Deltas ==
    [][(/\ HandleWsMsg
        /\ IsDelta(Head(wsQueue).msg)
        /\ Head(wsQueue).channel \in DOMAIN books)
       => LET c == Head(wsQueue).channel
              deltas == DeltasOf(Head(wsQueue).msg)
          IN books' = [books EXCEPT
                          ![c] = [side \in BookSides |->
                                     SideAfter(books[c][side], deltas, side)]]]_vars

(* after a snapshot, an update that sets a bid and then removes it, was     *)
(* handled                                                                  *)
C10_Witness ==
    /\ IsFrameResult({"Ok"})
    /\ last.msg.shape = "l2update"
    /\ Len(last.msg.changes) = 2
    /\ last.msg.changes[1] = <<"buy", 10, 2>>
    /\ last.msg.changes[2] = <<"buy", 10, 0>>
    /\ last.channel \in DOMAIN books
    /\ books[last.channel].asks # EmptyMap
    /\ books[last.channel].bids = EmptyMap

----------------------------------------------------------------------------
(* Properties of the tapes (SpecTape)                                       *)

LastN(s, n) == IF Len(s) <= n THEN s ELSE SubSeq(s, Len(s) - n + 1, Len(s))

(* C9: every Tape holds at most 100 trades, and they are the last           *)
(* min(n, 100) of the n trades inserted for its channel, in arrival order.  *)
C9_Tape ==
    \A c \in DOMAIN tapes :
        /\ Len(tapes[c]) <= 100
        /\ tapes[c] = LastN(inserted[c], 100)

(* more than 100 trades were inserted, and the first is gone *)
C9_Witness ==
    \E c \in DOMAIN tapes :
        /\ Len(inserted[c]) > 100
        /\ Len(tapes[c]) = 100
        /\ tapes[c][1] = inserted[c][Len(inserted[c]) - 99]
        /\ tapes[c][1] # inserted[c][1]

----------------------------------------------------------------------------
(* Properties of the snapshots (SpecFrames)                                 *)

IsSnapshot(m) == m.frame = "Text" /\ m.shape = "snapshot"

(* the levels a list of (price, size) pairs names: per price, the size of   *)
(* the last pair of that price                                              *)
LevelsOf(levels) ==
    [price \in {levels[i][1] : i \in 1..Len(levels)} |->
        LET idx == {i \in 1..Len(levels) : levels[i][1] = price}
        IN levels[CHOOSE i \in idx : \A j \in idx : j <= i][2]]

(* C11: handling a snapshot on a channel leaves the channel's Book with     *)
(* exactly the bids and the asks of the snapshot, whatever it held before,  *)
(* and leaves every other Book as it was.                                   *)
C11_SnapshotReplaces ==
    [][(HandleWsMsg /\ IsSnapshot(Head(wsQueue).msg))
       => LET c == Head(wsQueue).channel
              m == Head(wsQueue).msg
          IN /\ c \in DOMAIN books'
             /\ books'[c] = [bids |-> LevelsOf(m.bids), asks |-> LevelsOf(m.asks)]
             /\ \A d \in DOMAIN books \ {c} : d \in DOMAIN books' /\ books'[d] = books[d]]_vars

(* the second frame of a gdax Book channel was a snapshot of one bid *)
C11_Witness ==
    /\ IsFrameResult({"Ok"})
    /\ IsSnapshot(last.msg)
    /\ nFrm = 2
    /\ wsQueue = <<>>
    /\ last.channel = Chan("Gdax", "Book", "BTC-USD")
    /\ last.msg.bids = <<<<11, 1>>>>
    /\ last.msg.asks = <<>>
    /\ books[last.channel] = [bids |-> MapInsert(EmptyMap, 11, 1), asks |-> EmptyMap]

----------------------------------------------------------------------------
(* Properties of Stop and of the entries (Spec)                             *)

(* the supervisor's step that takes a request of operation op *)
ReqStep(op) == NextReq(op) /\ reqQueue' = Tail(reqQueue) /\ app' = "running"

(* C12: handling Stop(c) removes the socket record of c and no other,       *)
(* and changes no Tape and no Book; Tape(c) on a Tape channel and Book(c)   *)
(* on a Book channel that a Start was handled for, stopped or not, are      *)
(* answered with the channel's Tape or Book.                                *)
C12_StopKeepsEntry ==
    [][LET c == Head(reqQueue).channel
       IN /\ ReqStep("Stop") => /\ tapes' = tapes
                                /\ books' = books
                                /\ sockets' = [d \in DOMAIN sockets \ {c} |-> sockets[d]]
          /\ (ReqStep("Tape") /\ c.channel = "Tape" /\ c \in started)
                => (last'.response.ok /\ last'.response.val = tapes[c])
          /\ (ReqStep("Book") /\ c.channel = "Book" /\ c \in started)
                => (last'.response.ok /\ last'.response.val = books[c])]_vars

(* Tape(c) was answered with a trade after a Stop(c) that succeeded *)
C12_Witness ==
    /\ IsResponse("Tape")
    /\ last.response.ok
    /\ Len(last.response.val) > 0
    /\ ~last.pre.socket
    /\ last.channel \in DOMAIN workers
    /\ Len(workers[last.channel].sent) = 2

(* C13: every channel that is a key of sockets has a live worker, so that   *)
(* after the exchange closed the connection of c, Last(c) and Stop(c) are   *)
(* answered SocketDoesNotExist.                                             *)
C13_Orphaned ==
    /\ \A c \in DOMAIN sockets : c \in DOMAIN workers /\ workers[c].alive
    /\ (/\ last.kind = "response"
        /\ last.op \in {"Last", "Stop"}
        /\ last.channel \in DOMAIN workers
        /\ ~workers[last.channel].alive)
          => last.response = Err("SocketDoesNotExist")

(* C14: a Start(c) handled after a Stop(c) that succeeded, with no Start    *)
(* of c in between, succeeds and leaves a socket record of c, unless the    *)
(* connection could not be set up.                                          *)
C14_StartAfterStop ==
    (IsResponse("Start") /\ last.pre.stopped)
        => \/ last.response = Err("Tungstenite")
           \/ last.response.ok /\ last.channel \in DOMAIN sockets

(* C15: a Start(c) that fails in the connection setup returns the transport *)
(* error, leaves no socket record of c, and leaves the empty Tape or Book   *)
(* it created; for a channel whose only Starts failed so (it never had a    *)
(* worker), Tape(c) and Book(c) of its kind return the empty entry, Last(c) *)
(* fails with SocketDoesNotExist and Start(c) with ChannelAlreadySubscribed.*)
C15_FailedStart ==
    /\ (IsResponse("Start") /\ last.response = Err("Tungstenite"))
          => /\ last.returned = Err("Tungstenite")
             /\ ~last.pre.entry
             /\ last.channel \notin DOMAIN sockets
             /\ IF last.channel.channel = "Tape"
                THEN last.channel \in DOMAIN tapes /\ tapes[last.channel] = <<>>
                ELSE last.channel \in DOMAIN books /\ books[last.channel] = BookNew
    /\ (last.kind = "response" /\ last.pre.started /\ last.channel \notin DOMAIN workers)
          => /\ (last.op = "Tape" /\ last.channel.channel = "Tape")
                    => last.response = Ok(<<>>)
             /\ (last.op = "Book" /\ last.channel.channel = "Book")
                    => last.response = Ok(BookNew)
             /\ last.op = "Last" => last.response = Err("SocketDoesNotExist")
             /\ last.op = "Start" => last.response = Err("ChannelAlreadySubscribed")

(* a Start(c) was retried after the Start(c) that failed to connect *)
C15_Witness ==
    /\ IsResponse("Start")
    /\ last.response = Err("ChannelAlreadySubscribed")
    /\ last.pre.started
    /\ last.pre.entry
    /\ last.channel \notin DOMAIN workers
    /\ last.channel \notin DOMAIN sockets

(* C16: a call of BlockingClient returns the response the supervisor built *)
(* for its request, or UnexpectedShutdown: UnexpectedShutdown and nothing   *)
(* else when the request could not be sent, or was dropped unprocessed with *)
(* the supervisor's queue.                                                  *)
C16_BlockingReturn ==
    /\ last.kind = "response" => last.returned = last.response
    /\ last.kind = "call" => last.returned = Err("UnexpectedShutdown")
    /\ last.kind = "frame" =>
          \A i \in DOMAIN last.dropped :
              last.dropped[i].returned = Err("UnexpectedShutdown")

----------------------------------------------------------------------------
(* Properties of the response stream (SpecAsync)                            *)

(* the supervisor's step that takes a request of AsyncClient *)
AsyncStep ==
    /\ app = "running"
    /\ reqQueue # <<>>
    /\ Head(reqQueue).resp = "None"
    /\ reqQueue' = Tail(reqQueue)
    /\ app' = "running"

(* the Channel a message of the stream carries, if any *)
MsgChannel(msg) == IF msg.ok THEN Ok(msg.val.channel) ELSE Err("None")

(* C17: the message the supervisor emits for a request, answered with       *)
(* success or with failure, carries the request's Channel.                  *)
C17_MessageChannel ==
    [][AsyncStep => /\ stream' # <<>>
                    /\ MsgChannel(stream'[Len(stream')]) = Ok(Head(reqQueue).channel)]_vars

(* the kind of ClientResp that answers each operation *)
RespKind(op) ==
    CASE op = "Start" -> "Subscribed"
      [] op = "Stop" -> "Unsubscribed"
      [] OTHER -> op

(* C18: the step that takes a request of AsyncClient appends exactly one    *)
(* message to the stream, the outcome of that request, and no other step    *)
(* changes the stream: the messages are one per processed request, in the   *)
(* order of processing.                                                     *)
C18_OneMessagePerRequest ==
    [][IF AsyncStep
       THEN /\ Len(stream') = Len(stream) + 1
            /\ SubSeq(stream', 1, Len(stream)) = stream
            /\ LET msg == stream'[Len(stream')]
                   req == Head(reqQueue)
               IN /\ msg.ok = last'.response.ok
                  /\ msg.err = last'.response.err
                  /\ msg.ok => /\ msg.val.channel = req.channel
                               /\ msg.val.resp.kind = RespKind(req.op)
       ELSE stream' = stream]_vars

(* three requests were answered on the stream: a success, a failure and a   *)
(* Tape                                                                     *)
C18_Witness ==
    /\ Len(stream) = 3
    /\ stream[1].ok
    /\ ~stream[2].ok
    /\ stream[3].ok
    /\ stream[3].val.resp.kind = "Tape"

----------------------------------------------------------------------------
(* Properties of the order of the frames (SpecOrder)                        *)

(* the times, in seconds, of the trades in c's Tape, in the order of the    *)
(* Tape                                                                     *)
HandledTimes(c) == [i \in 1..Len(tapes[c]) |-> Value(tapes[c][i].dt.secs)]

(* the times of c's messages that wait in the supervisor's queue, in the    *)
(* order of the queue                                                       *)
WaitingTimes(c) ==
    LET OfChannel(x) == x.channel = c
        waiting == SelectSeq(wsQueue, OfChannel)
    IN [i \in 1..Len(waiting) |->
           CHOOSE k \in 1..MaxOrderFrames :
               NativeTime(c.exchange, k) = waiting[i].msg.trades[1].time]

(* C19: the k-th message the workers forwarded carries the time k.  For     *)
(* every channel the times in its Tape followed by the times of its waiting *)
(* messages never decrease, two trades of one message are in the order of   *)
(* the message, and every forwarded message is in one Tape or waiting: the  *)
(* messages of a channel are handled, and change its Tape, in the order in  *)
(* which they were forwarded.                                               *)
C19_FrameOrder ==
    /\ \A c \in chans :
          LET times == HandledTimes(c) \o WaitingTimes(c)
          IN /\ \A i, j \in 1..Len(times) : i < j => times[i] <= times[j]
             /\ \A i, j \in 1..Len(tapes[c]) :
                   (i < j /\ times[i] = times[j])
                      => (tapes[c][i].price = Text100_0 /\ tapes[c][j].price = Text100_5)
    /\ UNION {{HandledTimes(c)[i] : i \in 1..Len(tapes[c])}
              \cup {WaitingTimes(c)[i] : i \in 1..Len(WaitingTimes(c))} : c \in chans}
          = 1..nFrm

(* three messages wait, the first and the last of one channel, behind a     *)
(* message of that channel already in its Tape, and a request waits as well *)
C19_Witness ==
    /\ Len(wsQueue) = 3
    /\ wsQueue[1].channel = wsQueue[3].channel
    /\ wsQueue[2].channel # wsQueue[1].channel
    /\ tapes[wsQueue[1].channel] # <<>>
    /\ reqQueue # <<>>

----------------------------------------------------------------------------
(* Properties of the state entries (Spec)                                   *)

(* C20: no step removes a key of tapes or of books. *)
C20_EntriesNeverRemoved ==
    [][DOMAIN tapes \subseteq DOMAIN tapes' /\ DOMAIN books \subseteq DOMAIN books']_vars

(* a frame of c was handled after a Stop(c) that succeeded, and c still has *)
(* its entry                                                                *)
C20_Witness ==
    /\ last.kind = "frame"
    /\ app = "running"
    /\ HasEntry(last.channel)
    /\ last.channel \notin DOMAIN sockets
    /\ last.channel \in DOMAIN workers
    /\ Len(workers[last.channel].sent) = 2

----------------------------------------------------------------------------
(* Properties of the payloads (Spec)                                        *)

(* the exchange's unsubscribe request for c's market and kind: the          *)
(* subscription c's worker was started with, under the verb "unsubscribe"   *)
UnsubscribeRequest(c, sub) == Payload(c.exchange, "unsubscribe", sub.name, c.market)

(* C21: when Stop(c) is answered with success, the last payload sent on c's *)
(* connection is the exchange's unsubscribe request for c's market and      *)
(* kind; it is no subscribe request and differs from the payload Start(c)   *)
(* sent.                                                                    *)
C21_UnsubscribePayload ==
    (IsResponse("Stop") /\ last.response.ok) =>
        LET sent == workers[last.channel].sent
            payload == sent[Len(sent)]
        IN /\ Len(sent) = 2
           /\ payload = UnsubscribeRequest(last.channel, sent[1])
           /\ payload.verb # "subscribe"
           /\ payload # sent[1]

----------------------------------------------------------------------------
(* Properties of the trade conversions (SpecConvert)                        *)

NativeMillis(exchange, time) ==
    LET first3(frac) == [i \in 1..3 |-> IF i <= Len(frac) THEN DigitOf(frac[i]) ELSE 0]
    IN CASE exchange = "Gdax" -> Normal(time.second \o first3(time.fraction))
         [] exchange = "Kraken" ->
               LET p == CHOOSE i \in 1..Len(time) : time[i] = "."
               IN Normal([i \in 1..(p - 1) |-> DigitOf(time[i])]
                         \o first3(SubSeq(time, p + 1, Len(time))))
         [] exchange = "Hyperliquid" -> time

(* the milliseconds since the epoch of a DateTime<Utc> *)
Millis(dt) == Normal(dt.secs \o SubSeq(dt.nanos, 1, 3))

(* C24: handling a trade message on a Tape channel converts every trade of  *)
(* the message: the handler returns Ok and the trades appended to the Tape  *)
(* carry, to the millisecond, the native times of the message, in order.    *)
C24_MillisecondFidelity ==
    [][(/\ HandleWsMsg
        /\ IsTrade(Head(wsQueue).msg)
        /\ Head(wsQueue).channel.channel = "Tape")
       => LET c == Head(wsQueue).channel
              trades == Head(wsQueue).msg.trades
              old == Len(tapes[c])
          IN /\ last'.result = "Ok"
             /\ Len(tapes'[c]) = old + Len(trades)
             /\ \A i \in 1..Len(trades) :
                   Millis(tapes'[c][old + i].dt)
                       = NativeMillis(c.exchange, trades[i].time)]_vars

----------------------------------------------------------------------------
(* Properties of the values returned (SpecAsync)                            *)

(* C23: the step that takes a Tape, Book or Last request changes no Tape,   *)
(* no Book and no socket record; the value it answers Tape(c) or Book(c)    *)
(* with is c's Tape or Book as it is in that step, the Tape being the last  *)
(* 100 trades of the frames handled before; and the values delivered on the *)
(* stream are copies: no later step, of a frame or a request, changes them. *)
C23_SnapshotCopy ==
    [][LET req == Head(reqQueue)
           c == req.channel
       IN /\ (ReqStep("Tape") \/ ReqStep("Book") \/ ReqStep("Last"))
                => (tapes' = tapes /\ books' = books /\ sockets' = sockets)
          /\ (ReqStep("Tape") /\ c \in DOMAIN tapes)
                => /\ last'.response = Ok(tapes[c])
                   /\ tapes[c] = LastN(inserted[c], 100)
                   /\ stream'[Len(stream')]
                        = Ok(ClientRespMsg(c, [kind |-> "Tape", val |-> tapes[c]]))
          /\ (ReqStep("Book") /\ c \in DOMAIN books)
                => /\ last'.response = Ok(books[c])
                   /\ stream'[Len(stream')]
                        = Ok(ClientRespMsg(c, [kind |-> "Book", val |-> books[c]]))
          /\ SubSeq(stream', 1, Len(stream)) = stream]_vars

(* Tape(c) was answered with the empty Tape, and the trade of a frame       *)
(* handled since is in c's Tape and not in the answer                       *)
C23_Witness ==
    /\ Len(stream) = 2
    /\ stream[2].ok
    /\ stream[2].val.resp.kind = "Tape"
    /\ stream[2].val.resp.val = <<>>
    /\ tapes[stream[2].val.channel] # <<>>
    /\ last.kind = "frame"

----------------------------------------------------------------------------
(* Properties of the supervisor's loop (SpecSteps)                          *)

Busy == app = "handling"

TookRequest == reqQueue # <<>> /\ reqQueue' = Tail(reqQueue)

TookFrame == wsQueue # <<>> /\ wsQueue' = Tail(wsQueue)

(* the handler in progress returned to the loop, having done to the Tapes,  *)
(* the Books and the socket records what the whole operation does to the    *)
(* maps as they were when it began                                          *)
Completed ==
    LET b == last.before
        c == last.channel
    IN CASE last.of = "frame" ->
               LET out == handle_ws_msg_exchange(b.tapes, b.books, b.sockets, c,
                                                 last.item, b.now)
               IN /\ last'.kind = "frame"
                  /\ tapes' = out.tapes
                  /\ books' = out.books
                  /\ sockets' = out.sockets
         [] last.of = "Start" ->
               /\ last'.kind = "response"
               /\ tapes' = IF c.channel = "Tape" THEN MapInsert(b.tapes, c, <<>>)
                           ELSE b.tapes
               /\ books' = IF c.channel = "Book" THEN MapInsert(b.books, c, BookNew)
                           ELSE b.books
               /\ sockets' = IF last'.response.ok
                             THEN MapInsert(b.sockets, c, Websocket(b.now))
                             ELSE b.sockets
         [] last.of = "Stop" ->
               /\ last'.kind = "response"
               /\ tapes' = b.tapes
               /\ books' = b.books
               /\ sockets' = MapRemove(b.sockets, c)

(* C25: while a handler is in progress (a frame whose levels or trades are  *)
(* applied one by one, a Start that sets up its connection, a Stop) the     *)
(* supervisor takes no request and no frame, and the operation in progress  *)
(* stays the same until it returns, having had the effect of the whole      *)
(* operation; so a request is answered only between operations, Tape(c)     *)
(* and Book(c) with the entry as whole operations left it.                  *)
C25_RunToCompletion ==
    [][/\ Busy => /\ ~TookRequest
                  /\ ~TookFrame
                  /\ IF app' = "handling"
                     THEN /\ last'.kind = "partial"
                          /\ last'.of = last.of
                          /\ last'.channel = last.channel
                          /\ last'.before = last.before
                     ELSE Completed
       /\ (TookRequest /\ app' = "running" /\ Head(reqQueue).op \in {"Tape", "Book"})
             => LET c == Head(reqQueue).channel
                IN /\ ~Busy
                   /\ (Head(reqQueue).op = "Tape" /\ c \in DOMAIN tapes)
                         => last'.response = Ok(tapes[c])
                   /\ (Head(reqQueue).op = "Book" /\ c \in DOMAIN books)
                         => last'.response = Ok(books[c])]_vars

(* Book(c) waits in the request queue while the first of the two levels of  *)
(* an update of c's Book is applied and the second is not                   *)
C25_Witness ==
    /\ Busy
    /\ last.kind = "partial"
    /\ last.of = "frame"
    /\ Len(last.todo) = 1
    /\ last.todo[1].op = "level"
    /\ books[last.channel] # last.before.books[last.channel]
    /\ reqQueue # <<>>
    /\ Head(reqQueue).op = "Book"
    /\ Head(reqQueue).channel = last.channel

----------------------------------------------------------------------------
(* Properties of the writers (Spec)                                         *)

(* a step of a worker: it forwards a frame, or leaves its loop *)
WorkerStep ==
    \/ nFrm' # nFrm
    \/ \E c \in DOMAIN workers :
          c \in DOMAIN workers' /\ workers[c].alive /\ ~workers'[c].alive

(* a call of a facade: it enqueues a request, or fails to *)
CallStep == Len(reqQueue') > Len(reqQueue) \/ (app = "panicked" /\ last'.kind = "call")

(* C26: a step that changes a Tape, a Book or the socket records is a step  *)
(* of the supervisor, taking a request or a frame from its queues; the      *)
(* steps of the workers (forwarding a frame, leaving the loop on the        *)
(* killshot or on the close of the connection) and the calls of the facade  *)
(* leave the three unchanged.                                               *)
C26_SingleWriter ==
    [][/\ (tapes' # tapes \/ books' # books \/ sockets' # sockets)
             => /\ app = "running"
                /\ TookRequest \/ TookFrame \/ (wsQueue # <<>> /\ app' = "panicked")
       /\ (WorkerStep \/ CallStep)
             => (tapes' = tapes /\ books' = books /\ sockets' = sockets)]_vars

(* the worker of a stopped channel has left its loop on the killshot, the   *)
(* worker of the other channel has forwarded a frame that waits, and a      *)
(* request waits; the stopped channel has its entry                         *)
C26_Witness ==
    /\ \E c \in DOMAIN workers :
          /\ ~workers[c].alive
          /\ workers[c].kill_rx = <<>>
          /\ Len(workers[c].sent) = 2
          /\ HasEntry(c)
          /\ c \notin DOMAIN sockets
    /\ wsQueue # <<>>
    /\ reqQueue # <<>>
    /\ DOMAIN sockets # {}

----------------------------------------------------------------------------
(* Properties of the entries' creation (SpecFrames)                         *)

(* C27: handling a frame adds no key to books and none to tapes; every key  *)
(* of books is a channel of kind Book that a Start was handled for, and     *)
(* every key of tapes such a channel of kind Tape.                          *)
C27_EntriesOnlyByStart ==
    /\ \A c \in DOMAIN books : c \in started /\ c.channel = "Book"
    /\ \A c \in DOMAIN tapes : c \in started /\ c.channel = "Tape"

----------------------------------------------------------------------------
(* Properties of the time of the last message (SpecLast)                    *)

(* the supervisor's step that takes a frame: it handles it, or panics *)
FrameStep ==
    /\ app = "running"
    /\ wsQueue # <<>>
    /\ wsQueue' = Tail(wsQueue) \/ app' = "panicked"

(* C28 as stated: handling any frame of a channel that has a socket record  *)
(* sets the record's last_message to the time of the handling, whatever the *)
(* frame: a transport error as well.                                        *)
C28_LastUpdatedAlways ==
    [][(FrameStep /\ Head(wsQueue).channel \in DOMAIN sockets)
          => sockets' = [sockets EXCEPT ![Head(wsQueue).channel].last_message = now]]_vars

(* C28, amended: handling a frame that carries a message (a text that       *)
(* decodes, a text that fails to decode, a trade message on a Book channel, *)
(* a non-text message) sets last_message of the channel's socket record to  *)
(* the time of the handling, whether or not the handling of the payload     *)
(* then fails; handling a transport error leaves it as it was; no other     *)
(* step changes it, and Last(c) is answered with it.                        *)
C28_LastUpdated ==
    [][/\ (FrameStep /\ Head(wsQueue).channel \in DOMAIN sockets)
             => sockets' = IF Head(wsQueue).msg.frame = "Err" THEN sockets
                           ELSE [sockets EXCEPT
                                    ![Head(wsQueue).channel].last_message = now]
       /\ ~FrameStep => sockets' = sockets
       /\ (TookRequest /\ ~FrameStep /\ Head(reqQueue).channel \in DOMAIN sockets)
             => last'.response = Ok(sockets[Head(reqQueue).channel].last_message)]_vars

(* Last(c) was answered with the time of the second of two frames handled   *)
(* on a kraken channel                                                      *)
C28_Witness ==
    /\ IsResponse("Last")
    /\ last.channel.exchange = "Kraken"
    /\ nFrm = 2
    /\ wsQueue = <<>>
    /\ last.response.ok
    /\ last.response.val >= 2
    /\ last.response.val = now - 1

----------------------------------------------------------------------------
(* Properties of the shutdown of a channel (Spec)                           *)

(* the worker of c forwards a frame in this step *)
Forwarded(c) ==
    /\ nFrm' = nFrm + 1
    /\ Len(wsQueue') = Len(wsQueue) + 1
    /\ wsQueue' = Append(wsQueue, wsQueue'[Len(wsQueue')])
    /\ wsQueue'[Len(wsQueue')].channel = c

(* C29: when Stop(c) is answered with success the worker of c has left its  *)
(* receive loop, and from then on, as long as c is not started again, the   *)
(* worker of c forwards no frame to the supervisor.                         *)
C29_StopWaitsForExit ==
    [][/\ (ReqStep("Stop") /\ last'.response.ok)
             => ~workers'[last'.channel].alive
       /\ \A c \in DOMAIN workers \ DOMAIN sockets : ~Forwarded(c)]_vars

(* C30: a frame waiting in the supervisor's queue leaves it only by being   *)
(* handled; a frame of a channel whose socket record Stop has removed is    *)
(* handled like the frame of a subscribed channel: it is applied to the     *)
(* Tape or Book of its channel with the same result, so the entry of a      *)
(* channel can change after its Stop was answered with success.             *)
C30_QueuedFramesProcessed ==
    [][/\ (wsQueue # <<>> /\ wsQueue' # wsQueue /\ Len(wsQueue') <= Len(wsQueue))
             => FrameStep
       /\ (FrameStep /\ Head(wsQueue).channel \notin DOMAIN sockets)
             => LET c == Head(wsQueue).channel
                    m == Head(wsQueue).msg
                    out == handle_ws_msg_exchange(tapes, books,
                              MapInsert(sockets, c, Websocket(now)), c, m, now)
                IN /\ last'.kind = "frame"
                   /\ last'.channel = c
                   /\ last'.msg = m
                   /\ last'.result = out.result
                   /\ tapes' = out.tapes
                   /\ books' = out.books]_vars

(* the snapshot of a Book channel was handled after the Stop of the channel *)
(* was answered with success, and the Book of the channel holds its levels  *)
C30_Witness ==
    /\ last.kind = "frame"
    /\ app = "running"
    /\ last.channel.channel = "Book"
    /\ last.channel \notin DOMAIN sockets
    /\ last.channel \in DOMAIN workers
    /\ Len(workers[last.channel].sent) = 2
    /\ last.channel \in DOMAIN books
    /\ books[last.channel] # BookNew

----------------------------------------------------------------------------
(* Properties of the worker's receive loop (SpecWorker)                     *)

(* the worker of c takes the next value of its killshot channel *)
TookSignal(c) ==
    /\ workers[c].kill_rx # <<>>
    /\ workers'[c].kill_rx = Tail(workers[c].kill_rx)

(* C31: the receive loop of a worker ends only by the close of the          *)
(* connection or by taking the signal true; taking the signal false,        *)
(* forwarding a frame (a transport error included) or an idle tick leaves   *)
(* it running.                                                              *)
C31_LoopEnds ==
    [][\A c \in DOMAIN workers :
          /\ (workers[c].alive /\ ~workers'[c].alive)
                => \/ TookSignal(c) /\ Head(workers[c].kill_rx)
                   \/ /\ workers'[c].kill_rx = workers[c].kill_rx
                      /\ wsQueue' = wsQueue
                      /\ nFrm' = nFrm
          /\ (TookSignal(c) /\ ~Head(workers[c].kill_rx))
                => workers'[c].alive = workers[c].alive
          /\ Forwarded(c) => workers'[c].alive = workers[c].alive
          /\ ~workers[c].alive => ~workers'[c].alive]_vars

(* the worker took the signal false and forwarded a transport error, and is *)
(* still running                                                            *)
C31_Witness ==
    \E c \in DOMAIN workers :
        /\ workers[c].alive
        /\ workers[c].errors = 1
        /\ wsQueue # <<>>
        /\ Head(wsQueue).channel = c
        /\ Head(wsQueue).msg.frame = "Err"

----------------------------------------------------------------------------
(* Properties of the supervisor's termination (SpecLive)                    *)

(* C32: once the client is dropped and the requests it left are handled,    *)
(* the supervisor's loop ends: the thread does not stay at its select!      *)
(* forever.                                                                 *)
C32_LoopExits ==
    (facade = "dropped" /\ reqQueue = <<>>) ~> (app # "running")

----------------------------------------------------------------------------
(* Properties of the informational messages (SpecFrames)                    *)

(* a message that carries no market data: a text that decodes into a        *)
(* heartbeat, a subscription acknowledgement or a system status, the text   *)
(* "Websocket connection established." of hyperliquid, or a non-text        *)
(* message                                                                  *)
Informational(c, m) ==
    \/ m.frame = "NonText"
    \/ m.frame = "Text" /\ m.shape = "info"
    \/ m.frame = "Text" /\ m.shape = "established" /\ c.exchange = "Hyperliquid"

(* C33: handling an informational message or a non-text message results in *)
(* Ok, leaves the supervisor running and changes no Book and no Tape, on a  *)
(* Book channel as on a Tape channel.                                       *)
C33_Informational ==
    [][(FrameStep /\ Informational(Head(wsQueue).channel, Head(wsQueue).msg))
          => /\ last'.kind = "frame"
             /\ last'.result = "Ok"
             /\ app' = "running"
             /\ wsQueue' = Tail(wsQueue)
             /\ books' = books
             /\ tapes' = tapes]_vars

(* the connection-established text of hyperliquid was handled on a Book     *)
(* channel whose book a snapshot had filled                                 *)
C33_Witness ==
    /\ last.kind = "frame"
    /\ last.msg.frame = "Text"
    /\ last.msg.shape = "established"
    /\ last.channel.exchange = "Hyperliquid"
    /\ last.channel.channel = "Book"
    /\ last.result = "Ok"
    /\ last.channel \in DOMAIN books
    /\ books[last.channel].bids # EmptyMap

----------------------------------------------------------------------------
(* Properties of the independence of the channels (Spec)                    *)

(* the entries of channel d are after the step what they were before it *)
Untouched(d) ==
    /\ (d \in DOMAIN tapes') = (d \in DOMAIN tapes)
    /\ d \in DOMAIN tapes => tapes'[d] = tapes[d]
    /\ (d \in DOMAIN books') = (d \in DOMAIN books)
    /\ d \in DOMAIN books => books'[d] = books[d]
    /\ (d \in DOMAIN sockets') = (d \in DOMAIN sockets)
    /\ d \in DOMAIN sockets => sockets'[d] = sockets[d]

(* C34: handling a request or a frame of channel c changes no Book, no      *)
(* Tape, no socket record and no last_message of a channel other than c,    *)
(* be it a channel that differs from c only in kind, exchange or market.    *)
C34_Independent ==
    [][/\ FrameStep
             => \A d \in chans \ {Head(wsQueue).channel} : Untouched(d)
       /\ (TookRequest /\ ~FrameStep)
             => \A d \in chans \ {Head(reqQueue).channel} : Untouched(d)]_vars

(* a snapshot filled the Book of a gdax channel while the Tape channel of   *)
(* the same exchange and market was subscribed                              *)
C34_Witness ==
    /\ last.kind = "frame"
    /\ last.result = "Ok"
    /\ last.msg.shape = "snapshot"
    /\ last.channel = Chan("Gdax", "Book", "BTC-USD")
    /\ last.channel \in DOMAIN sockets
    /\ books[last.channel] # BookNew
    /\ Chan("Gdax", "Tape", "BTC-USD") \in DOMAIN sockets
    /\ Chan("Gdax", "Tape", "BTC-USD") \in DOMAIN tapes
    /\ sockets[Chan("Gdax", "Tape", "BTC-USD")].last_message
          # sockets[last.channel].last_message

----------------------------------------------------------------------------
(* Properties of the rejected requests (Spec)                               *)

(* C35: a request answered with ChannelAlreadySubscribed,                   *)
(* ChannelDoesNotExist or SocketDoesNotExist changes no Tape, no Book and   *)
(* no socket record, starts and signals no worker, sends nothing on a       *)
(* connection and leaves the workers' queue as it was.                      *)
C35_RejectedKeepsState ==
    [][(/\ TookRequest
        /\ ~FrameStep
        /\ last'.kind = "response"
        /\ ~last'.response.ok
        /\ last'.response.err \in
              {"ChannelAlreadySubscribed", "ChannelDoesNotExist", "SocketDoesNotExist"})
       => /\ tapes' = tapes
          /\ books' = books
          /\ sockets' = sockets
          /\ workers' = workers
          /\ wsQueue' = wsQueue
          /\ app' = app]_vars

(* a Start was rejected on a Book channel that is subscribed and whose book *)
(* a snapshot had filled                                                    *)
C35_Witness ==
    /\ IsResponse("Start")
    /\ last.response = Err("ChannelAlreadySubscribed")
    /\ last.channel.channel = "Book"
    /\ last.channel \in DOMAIN sockets
    /\ last.channel \in DOMAIN books
    /\ books[last.channel] # BookNew
    /\ workers[last.channel].alive

----------------------------------------------------------------------------
(* Properties of the entries of connected channels (Spec)                   *)

(* the entry of the kind of channel c exists *)
HasOwnEntry(c) ==
    IF c.channel = "Tape" THEN c \in DOMAIN tapes ELSE c \in DOMAIN books

(* C36: every channel that has a socket record has its Tape or Book entry,  *)
(* and so has every channel that has a worker and every channel a frame of  *)
(* which waits for the supervisor: the entry exists before any frame of the *)
(* channel is handled.                                                      *)
C36_EntryBeforeFrames ==
    /\ \A c \in DOMAIN sockets : HasOwnEntry(c)
    /\ \A c \in DOMAIN workers : HasOwnEntry(c)
    /\ \A i \in 1..Len(wsQueue) : HasOwnEntry(wsQueue[i].channel)

(* a trade message waits for the supervisor on a subscribed Tape channel    *)
(* whose tape is still empty                                                *)
C36_Witness ==
    /\ wsQueue # <<>>
    /\ IsTrade(Head(wsQueue).msg)
    /\ Head(wsQueue).channel.channel = "Tape"
    /\ Head(wsQueue).channel \in DOMAIN sockets
    /\ Head(wsQueue).channel \in DOMAIN tapes
    /\ tapes[Head(wsQueue).channel] = <<>>

----------------------------------------------------------------------------
(* Properties of the end of a channel (SpecLive)                            *)

(* Stop(c) succeeded: c has a worker and no socket record *)
Stopped(c) == c \in DOMAIN workers /\ c \notin DOMAIN sockets

(* no frame of c waits for the supervisor *)
Drained(c) == \A i \in 1..Len(wsQueue) : wsQueue[i].channel # c

(* the Tape and the Book of c are after the step what they were before it *)
EntryKept(c) ==
    /\ (c \in DOMAIN tapes') = (c \in DOMAIN tapes)
    /\ c \in DOMAIN tapes => tapes'[c] = tapes[c]
    /\ (c \in DOMAIN books') = (c \in DOMAIN books)
    /\ c \in DOMAIN books => books'[c] = books[c]

(* C37: after a Stop(c) that succeeded the worker of c eventually leaves    *)
(* its loop; a worker that has left its loop forwards no frame; and once    *)
(* it has left and no frame of c waits for the supervisor, no step changes  *)
(* the Tape or the Book of c.                                               *)
C37_StopSettles ==
    /\ \A c \in {d \in Channel : d.market = "BTC-USD"} :
          Stopped(c) ~> (Stopped(c) /\ ~workers[c].alive)
    /\ [][\A c \in DOMAIN workers :
             ~workers[c].alive
                => /\ ~Forwarded(c)
                   /\ c \in DOMAIN workers' /\ ~workers'[c].alive
                   /\ Drained(c) => EntryKept(c) /\ Drained(c)']_vars

(* the worker of c has taken the signal of a Stop and left its loop, and    *)
(* the frame of c that was handled after the Stop is the last thing the     *)
(* supervisor did                                                           *)
C37_Witness ==
    \E c \in DOMAIN workers :
        /\ c \notin DOMAIN sockets
        /\ ~workers[c].alive
        /\ workers[c].kill_rx = <<>>
        /\ Len(workers[c].sent) = 2
        /\ wsQueue = <<>>
        /\ last.kind = "frame"
        /\ last.channel = c
        /\ app = "running"

----------------------------------------------------------------------------
(* Properties of the progress of the requests (SpecFair)                    *)

(* C38: a request that waits in the queue of a running supervisor is        *)
(* eventually taken, also when the connection never stops delivering        *)
(* frames (or the supervisor has ended); the step that takes it answers     *)
(* it, once, with the response of its operation for its channel.            *)
C38_RequestsAnswered ==
    /\ \/ []<>(reqQueue = <<>>)
       \/ []<><<TookRequest /\ ~FrameStep>>_vars
    /\ [][(TookRequest /\ ~FrameStep)
             => /\ last'.kind = "response"
                /\ last'.op = Head(reqQueue).op
                /\ last'.channel = Head(reqQueue).channel
                /\ last'.returned = last'.response
                /\ app' = "running"]_vars

(* a Stop was answered although a frame was waiting when it was taken, and  *)
(* the clock has gone round: the frames have not stopped                    *)
C38_Witness ==
    /\ IsResponse("Stop")
    /\ last.response.ok
    /\ wsQueue # <<>>
    /\ now = MaxClock
    /\ app = "running"

----------------------------------------------------------------------------
(* The return of a call of AsyncClient (SpecAsync)                          *)

(* a call of AsyncClient put its request in the supervisor's queue *)
Enqueued ==
    /\ Len(reqQueue') = Len(reqQueue) + 1
    /\ reqQueue'[Len(reqQueue')].resp = "None"

(* C39: a call of AsyncClient is a step of its own, which needs no step of  *)
(* the supervisor: it returns Ok(()) once its request is in the queue, and  *)
(* the step that takes the request later leaves that Ok(()) as what the     *)
(* call returned, whatever the response; the response, an error included,   *)
(* is the message the step appends to the stream.  A call returns           *)
(* UnexpectedShutdown only when the supervisor has ended and the queue is   *)
(* closed.                                                                  *)
C39_CallNeverWaits ==
    [][/\ Enqueued =>
            /\ AsyncRequest(TRUE) = Ok("unit")
            /\ last' = last
            /\ stream' = stream
            /\ app' = app
       /\ AsyncStep =>
            /\ last'.returned = Ok("unit")
            /\ stream'[Len(stream')].ok = last'.response.ok
            /\ ~last'.response.ok =>
                   stream'[Len(stream')] = Err(last'.response.err)
       /\ (last'.kind = "call" /\ last' # last) =>
            /\ app = "panicked"
            /\ last'.returned = Err("UnexpectedShutdown")]_vars

(* a Start of a channel that has its entry was answered                     *)
(* ChannelAlreadySubscribed on the stream, and the call had returned Ok(()) *)
C39_Witness ==
    /\ last.kind = "response"
    /\ last.op = "Start"
    /\ last.response = Err("ChannelAlreadySubscribed")
    /\ last.returned = Ok("unit")
    /\ stream # <<>>
    /\ stream[Len(stream)] = Err("ChannelAlreadySubscribed")

====
